---- MODULE Spec2Model ----
(***************************************************************************)
(* pftrack: the rule-based classifier (categorizer.py), the Transaction    *)
(* record (transaction.py) and the recurring-charge detector               *)
(* (recurring_detector.py) as a state machine.                             *)
(*                                                                         *)
(* Text is a sequence of one-character strings, so that substring search,  *)
(* upper-casing, stripping and whitespace splitting are computed as the    *)
(* code computes them.  A Python dict is a record whose DOMAIN is its key  *)
(* set; an insertion-ordered dict of named entries is a sequence of        *)
(* [name, config] pairs with distinct names.  Amounts are integers (cents),*)
(* dates are whole days, a mean is the exact fraction [num, den].          *)
(***************************************************************************)
EXTENDS Integers, Sequences, FiniteSets, TLC

VARIABLES
  config_file,    \* content of the file at config_path
  private_file,   \* content of the file at private_config_path
  classifier,     \* the CategoryClassifier object, or the exception of its constructor
  transactions,   \* the list of Transaction objects the caller holds
  manual_file,    \* content of the file at manual_transactions_path
  manual_transactions,  \* TransactionManager.manual_transactions, a list of dicts
  config_backup_created,  \* InteractiveCategorizer.config_backup_created
  backup_files,   \* contents of the <config_path>.backup.* files, in the order made
  budget_manager, \* BudgetManager: monthly_budgets, annual_budgets, category_budgets
  output_dir,     \* DataManager.output_dir, a path
  disk,           \* the directories and files DataManager has made, by path
  ret             \* the last call: its name, its arguments and what it returned or raised

\* the state of InteractiveCategorizer, BudgetManager and DataManager
tools == <<config_backup_created, backup_files, budget_manager, output_dir, disk>>

vars ==
  <<config_file, private_file, classifier, transactions, manual_file,
    manual_transactions, tools, ret>>

(***************************************************************************)
(* Bounds of the model.                                                    *)
(***************************************************************************)
MaxDescLen == 3     \* longest generated description fed to categorize
MaxTxns == 2        \* longest transaction list fed to categorize_all
MaxHistory == 3     \* longest transaction history fed to the detector
MaxNewDescLen == 2  \* longest description offered to the Transaction constructor
MaxPatterns == 2    \* longest pattern list fed to find_missing and predict_future
MaxSeen == 2        \* longest history held by the detector asked for missing patterns
MaxManual == 2      \* most records the transaction manager holds

(***************************************************************************)
(* Text.                                                                   *)
(***************************************************************************)
LowerLetters ==
  <<"a","b","c","d","e","f","g","h","i","j","k","l","m",
    "n","o","p","q","r","s","t","u","v","w","x","y","z">>

UpperLetters ==
  <<"A","B","C","D","E","F","G","H","I","J","K","L","M",
    "N","O","P","Q","R","S","T","U","V","W","X","Y","Z">>

Whitespace == {" ", "\t", "\n"}

UpperChar(c) ==
  IF \E i \in 1..Len(LowerLetters) : LowerLetters[i] = c
  THEN UpperLetters[CHOOSE i \in 1..Len(LowerLetters) : LowerLetters[i] = c]
  ELSE c

\* str.upper()
upper(s) == [i \in 1..Len(s) |-> UpperChar(s[i])]

ContainsReversed(sub, s) ==
  \E i \in 0..(Len(sub) - Len(s)) : SubSeq(sub, i + 1, i + Len(s)) = s

\* Python's `sub in s` on strings
Contains(sub, s) ==
  \E i \in 0..(Len(s) - Len(sub)) : SubSeq(s, i + 1, i + Len(sub)) = sub

\* str.strip()
strip(s) ==
  LET keep == {i \in 1..Len(s) : s[i] \notin Whitespace}
  IN  IF keep = {} THEN <<>>
      ELSE SubSeq(s, CHOOSE i \in keep : \A j \in keep : i <= j,
                     CHOOSE i \in keep : \A j \in keep : j <= i)

\* ' '.join(s.split()): whitespace runs collapse to one space, the ends are stripped
RECURSIVE JoinSplit(_)
JoinSplit(s) ==
  IF s = <<>> THEN <<>>
  ELSE IF s[1] \in Whitespace THEN JoinSplit(Tail(s))
  ELSE LET rest == Tail(s)
       IN  IF rest = <<>> THEN <<s[1]>>
           ELSE IF rest[1] \in Whitespace
                THEN LET more == JoinSplit(rest)
                     IN  IF more = <<>> THEN <<s[1]>> ELSE <<s[1], " ">> \o more
                ELSE <<s[1]>> \o JoinSplit(rest)

\* all texts over an alphabet of length lo..hi
Texts(alphabet, lo, hi) == UNION {[1..n -> alphabet] : n \in lo..hi}

(***************************************************************************)
(* Dicts.                                                                  *)
(***************************************************************************)
\* dict.get(k, default)
Get(d, k, default) == IF k \in DOMAIN d THEN d[k] ELSE default

\* d[k] = v
Put(d, k, v) == (k :> v) @@ d

Range(s) == {s[i] : i \in 1..Len(s)}

\* the keys of an ordered dict, in order
Keys(od) == [i \in 1..Len(od) |-> od[i].name]

HasKey(od, n) == \E i \in 1..Len(od) : od[i].name = n

\* od[n]
Item(od, n) == od[CHOOSE i \in 1..Len(od) : od[i].name = n].config

\* od[n] = cfg: an existing key keeps its position, a new key goes last
SetItem(od, n, cfg) ==
  IF HasKey(od, n)
  THEN [i \in 1..Len(od) |-> IF od[i].name = n THEN [name |-> n, config |-> cfg] ELSE od[i]]
  ELSE Append(od, [name |-> n, config |-> cfg])

\* list(a_set): the iteration order of a set of strings is not fixed by the code
ListsOf(S) == {s \in [1..Cardinality(S) -> S] : Range(s) = S}

(***************************************************************************)
(* Config files.  A file is absent, is text that json.load rejects, or     *)
(* holds a JSON document: an object (a dict), null, a number, a boolean,   *)
(* or a string or array, of which `has` says whether Python's              *)
(* `'categories' in document` is true.                                     *)
(***************************************************************************)
Absent == [kind |-> "absent"]

JsonObject(d) == [kind |-> "object", value |-> d]

Exists(file) == file.kind # "absent"

_get_default_categories ==
  <<
    [name |-> "Groceries", config |->
     [keywords |-> <<
        <<"G","R","O","C","E","R","Y">>,
        <<"C","O","-","O","P">>,
        <<"S","U","P","E","R","S","T","O","R","E">>,
        <<"S","A","F","E","W","A","Y">>,
        <<"W","A","L","M","A","R","T">>,
        <<"C","O","S","T","C","O">>,
        <<"N","O"," ","F","R","I","L","L","S">>>>,
      priority |-> 1]],
    [name |-> "Restaurants", config |->
     [keywords |-> <<
        <<"R","E","S","T","A","U","R","A","N","T">>,
        <<"M","C","D","O","N","A","L","D">>,
        <<"S","T","A","R","B","U","K","O">>,
        <<"P","I","Z","Z","A">>,
        <<"T","I","M"," ","H","O","R","T","O","N","S">>,
        <<"S","U","B","W","A","Y">>,
        <<"P","E","K","I","N","G"," ","G","A","R","D","E","N">>,
        <<"S","H","A","W","A","R","M","A">>,
        <<"K","O","R","E","A","N"," ","V","I","L","L","A","G","E">>>>,
      priority |-> 1]],
    [name |-> "Gas/Transportation", config |->
     [keywords |-> <<
        <<"G","A","S">>,
        <<"P","E","T","R","O">>,
        <<"S","H","E","L","L">>,
        <<"P","A","R","K","I","N","G">>,
        <<"E","S","S","O">>,
        <<"M","O","B","I","L">>>>,
      priority |-> 1]],
    [name |-> "Utilities", config |->
     [keywords |-> <<
        <<"T","E","L","U","S">>,
        <<"E","N","M","A","X">>,
        <<"U","T","I","L","I","T","Y"," ","B","I","L","L">>,
        <<"H","Y","D","R","O">>,
        <<"E","L","E","C","T","R","I","C">>>>,
      priority |-> 2]],
    [name |-> "Housing", config |->
     [keywords |-> <<
        <<"M","O","R","T","G","A","G","E">>,
        <<"R","E","N","T">>,
        <<"I","N","S","U","R","A","N","C","E"," ","I","N","T","A","C","T">>,
        <<"P","R","O","P","E","R","T","Y"," ","T","A","X">>>>,
      priority |-> 1]],
    [name |-> "Shopping", config |->
     [keywords |-> <<
        <<"A","M","A","Z","O","N">>,
        <<"C","A","N","A","D","I","A","N"," ","T","I","R","E">>,
        <<"W","I","N","N","E","R","S">>,
        <<"D","O","L","L","A","R","A","M","A">>,
        <<"L","O","N","D","O","N"," ","D","R","U","G","S">>,
        <<"G","O","O","D","W","I","L","L">>,
        <<"P","L","A","T","O","'","S"," ","C","L","O","S","E","T">>,
        <<"F","A","I","R","'","S"," ","F","A","I","R">>>>,
      priority |-> 2]],
    [name |-> "Entertainment", config |->
     [keywords |-> <<
        <<"A","M","A","Z","O","N"," ","C","H","A","N","N","E","L","S">>,
        <<"O","N","E","B","O","O","K","S","H","E","L">>,
        <<"N","E","T","F","L","I","X">>,
        <<"S","P","O","T","I","F","Y">>>>,
      priority |-> 1]],
    [name |-> "Income", config |->
     [keywords |-> <<
        <<"P","A","Y","R","O","L","L">>,
        <<"D","E","P","O","S","I","T">>,
        <<"I","N","T","E","R","E","S","T">>>>,
      priority |-> 1, require_negative |-> TRUE]],
    [name |-> "Transfers", config |->
     [keywords |-> <<
        <<"T","R","A","N","S","F","E","R">>,
        <<"B","I","L","L"," ","P","A","Y","M","E","N","T">>>>,
      priority |-> 3]],
    [name |-> "Other", config |->
     [keywords |-> <<>>,
      priority |-> 999]]
  >>

\* _load_config: the parsed document, or the exception that leaves the function
_load_config(file) ==
  CASE file.kind = "text" -> [raises |-> "ValueError"]
    [] file.kind \in {"null", "number", "boolean"} -> [raises |-> "TypeError"]
    [] file.kind \in {"string", "array"} ->
         IF file.has THEN [raises |-> "none", config |-> file]
         ELSE [raises |-> "ValueError"]
    [] file.kind = "object" ->
         IF "categories" \in DOMAIN file.value
         THEN [raises |-> "none", config |-> file]
         ELSE [raises |-> "ValueError"]

\* the sort key of _sort_categories_by_priority: x[1].get('priority', 999)
PriorityOrFirst(config) == Get(config, "priority", 0)

Priority(config) == Get(config, "priority", 999)

UnsortedCategories(categories) == categories

\* _sort_categories_by_priority: list.sort is stable
_sort_categories_by_priority(categories) ==
  LET n == Len(categories)
      key(i) == Priority(categories[i].config)
      rank(i) == 1 + Cardinality({j \in 1..n :
                       key(j) < key(i) \/ (key(j) = key(i) /\ j < i)})
  IN  [r \in 1..n |-> categories[CHOOSE i \in 1..n : rank(i) = r]]

OverlayKeywordsOnly(existing, private) == {private}

\* list(existing_keywords | private_keywords): every order the set may list in
MergedKeywords(existing, private) == ListsOf(Range(existing) \cup Range(private))

MergeKeepingPriority(base, overlay) ==
  LET others == DOMAIN overlay \ {"keywords", "priority"}
      withOthers(d) ==
        [k \in DOMAIN d \cup others |-> IF k \in others THEN overlay[k] ELSE d[k]]
  IN  {withOthers(Put(base, "keywords", kws)) :
         kws \in MergedKeywords(Get(base, "keywords", <<>>), Get(overlay, "keywords", <<>>))}

\* the body of the category loop of _merge_config for a name the base has
MergeCategory(base, overlay) ==
  LET others == DOMAIN overlay \ {"keywords", "priority"}
      withPriority(d) ==
        IF "priority" \in DOMAIN overlay THEN Put(d, "priority", overlay.priority) ELSE d
      withOthers(d) ==
        [k \in DOMAIN d \cup others |-> IF k \in others THEN overlay[k] ELSE d[k]]
  IN  {withOthers(withPriority(Put(base, "keywords", kws))) :
         kws \in MergedKeywords(Get(base, "keywords", <<>>), Get(overlay, "keywords", <<>>))}

\* the category loop of _merge_config, over the overlay's categories in order
RECURSIVE MergeCategories(_, _)
MergeCategories(categories, overlay) ==
  IF overlay = <<>> THEN {categories}
  ELSE LET name == Head(overlay).name
           config == Head(overlay).config
           merged == IF HasKey(categories, name)
                     THEN {SetItem(categories, name, m) :
                             m \in MergeCategory(Item(categories, name), config)}
                     ELSE {SetItem(categories, name, config)}
       IN  UNION {MergeCategories(c, Tail(overlay)) : c \in merged}

\* the body of the auto-tagging loop of _merge_config for a tag the base has
MergeTagRule(base, overlay) ==
  {Put(Put(base, "keywords", kws), "categories", cats) :
     kws \in MergedKeywords(Get(base, "keywords", <<>>), Get(overlay, "keywords", <<>>)),
     cats \in MergedKeywords(Get(base, "categories", <<>>), Get(overlay, "categories", <<>>))}

\* the auto-tagging loop of _merge_config
RECURSIVE MergeTagRules(_, _)
MergeTagRules(rules, overlay) ==
  IF overlay = <<>> THEN {rules}
  ELSE LET name == Head(overlay).name
           config == Head(overlay).config
           merged == IF HasKey(rules, name)
                     THEN {SetItem(rules, name, m) :
                             m \in MergeTagRule(Item(rules, name), config)}
                     ELSE {SetItem(rules, name, config)}
       IN  UNION {MergeTagRules(r, Tail(overlay)) : r \in merged}

\* _merge_config: every (categories, auto_tagging_rules) it can leave behind
_merge_config(categories, auto_tagging_rules, private_config) ==
  {[categories |-> c, auto_tagging_rules |-> a] :
     c \in MergeCategories(categories, Get(private_config, "categories", <<>>)),
     a \in MergeTagRules(auto_tagging_rules, Get(private_config, "auto_tagging", <<>>))}

NoClassifier == [status |-> "none"]

Raised(exception) == [status |-> exception]

Built(categories, auto_tagging_rules) ==
  [status |-> "ok",
   categories |-> _sort_categories_by_priority(categories),
   auto_tagging_rules |-> auto_tagging_rules]

\* CategoryClassifier.__init__: every object, or exception, the constructor can end in
CategoryClassifier(cf, pf) ==
  IF ~Exists(cf) THEN {Built(_get_default_categories, <<>>)}
  ELSE LET loaded == _load_config(cf)
       IN  IF loaded.raises # "none" THEN {Raised(loaded.raises)}
           ELSE IF cf.kind # "object" THEN {Raised("AttributeError")}
           ELSE LET categories == Get(cf.value, "categories", _get_default_categories)
                    auto == Get(cf.value, "auto_tagging", <<>>)
                IN  IF ~Exists(pf) THEN {Built(categories, auto)}
                    ELSE LET private == _load_config(pf)
                         IN  IF private.raises # "none" THEN {Raised(private.raises)}
                             ELSE IF pf.kind # "object" THEN {Raised("AttributeError")}
                             ELSE {Built(m.categories, m.auto_tagging_rules) :
                                     m \in _merge_config(categories, auto, pf.value)}

(***************************************************************************)
(* Transaction (transaction.py).                                           *)
(***************************************************************************)
None == "None"

\* the dataclass fields, with the defaults of lines 37-42
Transaction(date, account_type, description, amount, category, tags) ==
  [date |-> date, account_type |-> account_type, description |-> description,
   amount |-> amount, category |-> category, subcategory |-> None,
   credit_card |-> None, tags |-> tags, notes |-> None, account_id |-> None]

PostInitWithoutStrip(account_type, description) ==
  IF account_type \notin {"chequing", "visa"} THEN "ValueError"
  ELSE IF description = <<>> THEN "ValueError"
  ELSE "ok"

\* Transaction.__post_init__: "ok", or the exception it raises
__post_init__(account_type, description) ==
  IF account_type \notin {"chequing", "visa"} THEN "ValueError"
  ELSE IF description = <<>> \/ strip(description) = <<>> THEN "ValueError"
  ELSE "ok"

IsNonZero(t) == t.amount # 0

\* Transaction.is_expense
is_expense(t) == t.amount > 0

abs(x) == IF x < 0 THEN -x ELSE x

(***************************************************************************)
(* CategoryClassifier.categorize                                           *)
(***************************************************************************)
CASH_INTEREST == <<"C","A","S","H"," ","I","N","T","E","R","E","S","T">>

SkipsUnlessPositive(config, amount) ==
  Get(config, "require_negative", FALSE) /\ amount > 0

\* lines 203-207: a require_negative rule is passed over unless amount < 0
RequireNegativeSkips(config, amount) ==
  Get(config, "require_negative", FALSE) /\ amount >= 0

\* line 211: keyword.upper() in description_upper
KeywordMatches(keyword, description_upper) ==
  Contains(upper(keyword), description_upper)

NeverVetoed(category_name, keyword, amount) == FALSE

\* line 214: the Travel / CASH INTEREST override for negative amounts
Vetoed(category_name, keyword, amount) ==
  category_name = "Travel" /\ upper(keyword) = CASH_INTEREST /\ amount < 0

\* one pass of the outer loop returns from categorize
RuleReturns(entry, transaction) ==
  /\ entry.name # "Other"
  /\ ~RequireNegativeSkips(entry.config, transaction.amount)
  /\ LET keywords == Get(entry.config, "keywords", <<>>)
     IN  \E k \in 1..Len(keywords) :
           /\ KeywordMatches(keywords[k], upper(transaction.description))
           /\ ~Vetoed(entry.name, keywords[k], transaction.amount)

\* categorize: the first rule, in the order of self.categories, that returns
categorize(categories, transaction) ==
  LET hits == {i \in 1..Len(categories) : RuleReturns(categories[i], transaction)}
  IN  IF hits = {} THEN "Other"
      ELSE categories[CHOOSE i \in hits : \A j \in hits : i <= j].name

TagAppliesByKeyword(config, transaction) ==
  LET keywords == Get(config, "keywords", <<>>)
  IN  \E k \in 1..Len(keywords) :
        Contains(upper(keywords[k]), upper(transaction.description))

(***************************************************************************)
(* CategoryClassifier._apply_auto_tags and categorize_all                  *)
(***************************************************************************)
\* lines 231-239: keyword_match or category_match
TagApplies(config, transaction) ==
  LET keywords == Get(config, "keywords", <<>>)
      categories == Get(config, "categories", <<>>)
  IN  \/ \E k \in 1..Len(keywords) :
           Contains(upper(keywords[k]), upper(transaction.description))
      \/ transaction.category \in Range(categories)

AppendAlways(tags, tag_name) == Append(tags, tag_name)

\* lines 240-241: append unless present
AppendIfAbsent(tags, tag_name) ==
  IF tag_name \in Range(tags) THEN tags ELSE Append(tags, tag_name)

\* the loop of _apply_auto_tags over the rules, in order
RECURSIVE ApplyTagRules(_, _, _)
ApplyTagRules(rules, transaction, tags) ==
  IF rules = <<>> THEN tags
  ELSE ApplyTagRules(Tail(rules), transaction,
         IF TagApplies(Head(rules).config, transaction)
         THEN AppendIfAbsent(tags, Head(rules).name)
         ELSE tags)

\* _apply_auto_tags: the transaction with its tags extended
_apply_auto_tags(rules, transaction) ==
  [transaction EXCEPT !.tags = ApplyTagRules(rules, transaction, transaction.tags)]

TagThenCategorize(c, transaction) ==
  [_apply_auto_tags(c.auto_tagging_rules, transaction)
     EXCEPT !.category = categorize(c.categories, transaction)]

\* lines 253-254: assign the category, then auto-tag
CategorizeThenTag(c, transaction) ==
  _apply_auto_tags(c.auto_tagging_rules,
    [transaction EXCEPT !.category = categorize(c.categories, transaction)])

\* categorize_all: the list it returns, which is the list it was given
categorize_all(c, list) == [i \in 1..Len(list) |-> CategorizeThenTag(c, list[i])]

(***************************************************************************)
(* Operations.                                                             *)
(***************************************************************************)
NoCall == [op |-> "none"]

\* BudgetManager(None), lines 29-31: three empty dicts
NoBudgets ==
  [monthly_budgets |-> <<>>, annual_budgets |-> <<>>, category_budgets |-> <<>>]

\* no InteractiveCategorizer has saved, no BudgetManager has loaded, no
\* DataManager has been made
ToolsUnused ==
  /\ config_backup_created = FALSE
  /\ backup_files = <<>>
  /\ budget_manager = NoBudgets
  /\ output_dir = None
  /\ disk = {}

\* CategoryClassifier(config_path, private_config_path)
NewClassifier ==
  /\ classifier = NoClassifier
  /\ \E c \in CategoryClassifier(config_file, private_file) :
       /\ classifier' = c
       /\ ret' = [op |-> "CategoryClassifier", raised |-> c.status # "ok"]
  /\ UNCHANGED <<tools, manual_file, manual_transactions, config_file, private_file, transactions>>

\* Transaction(date, account_type, description, amount)
NewTransaction(date, account_type, description, amount) ==
  /\ Len(transactions) < MaxTxns
  /\ LET outcome == __post_init__(account_type, description)
     IN  /\ transactions' =
               IF outcome = "ok"
               THEN Append(transactions,
                      Transaction(date, account_type, description, amount, "Other", <<>>))
               ELSE transactions
         /\ ret' = [op |-> "Transaction", account_type |-> account_type,
                    description |-> description, outcome |-> outcome,
                    before |-> transactions]
  /\ UNCHANGED <<tools, manual_file, manual_transactions, config_file, private_file, classifier>>

\* classifier.categorize(transactions[i])
Categorize(i) ==
  /\ classifier.status = "ok"
  /\ ret' = [op |-> "categorize", transaction |-> transactions[i],
             value |-> categorize(classifier.categories, transactions[i])]
  /\ UNCHANGED <<tools, manual_file, manual_transactions, config_file, private_file,
               classifier, transactions>>

\* classifier._apply_auto_tags(transactions[i])
ApplyAutoTags(i) ==
  /\ classifier.status = "ok"
  /\ transactions' = [transactions EXCEPT
                        ![i] = _apply_auto_tags(classifier.auto_tagging_rules, @)]
  /\ ret' = [op |-> "_apply_auto_tags", index |-> i, before |-> transactions[i],
             repeated |-> ret.op = "_apply_auto_tags" /\ ret.index = i]
  /\ UNCHANGED <<tools, manual_file, manual_transactions, config_file, private_file, classifier>>

\* classifier.categorize_all(transactions)
CategorizeAll ==
  /\ classifier.status = "ok"
  /\ transactions' = categorize_all(classifier, transactions)
  /\ ret' = [op |-> "categorize_all", before |-> transactions,
             value |-> transactions']
  /\ UNCHANGED <<tools, manual_file, manual_transactions, config_file, private_file, classifier>>

(***************************************************************************)
(* Inputs: rule files, overlays, descriptions, amounts.                    *)
(***************************************************************************)
kA == <<"A">>
kb == <<"b">>
kaB == <<"a","B">>
kC == <<"C">>
INTEREST == <<"I","N","T","E","R","E","S","T">>

OtherRule == [name |-> "Other", config |-> [keywords |-> <<>>, priority |-> 999]]

\* declared out of priority order; three rules can match one description
PriorityRules ==
  [categories |-> <<
     [name |-> "Housing", config |-> [keywords |-> <<kb>>, priority |-> 2]],
     [name |-> "Pets", config |-> [keywords |-> <<kaB>>, priority |-> 1]],
     [name |-> "Groceries", config |-> [keywords |-> <<kA>>, priority |-> 3]],
     OtherRule >>]

\* a require_negative rule ahead of a rule sharing its keyword
IncomeRules ==
  [categories |-> <<
     [name |-> "Income", config |->
        [keywords |-> <<kA>>, priority |-> 1, require_negative |-> TRUE]],
     [name |-> "Shopping", config |-> [keywords |-> <<kA, kb>>, priority |-> 2]],
     OtherRule >>]

\* the Travel override; Bank has no priority and sorts behind Other
TravelRules ==
  [categories |-> <<
     OtherRule,
     [name |-> "Bank", config |-> [keywords |-> <<kC>>]],
     [name |-> "Income", config |->
        [keywords |-> <<INTEREST>>, priority |-> 2, require_negative |-> TRUE]],
     [name |-> "Travel", config |-> [keywords |-> <<CASH_INTEREST, kb>>, priority |-> 1]] >>]

\* no Other rule, a repeated keyword, a rule without priority
BareRules ==
  [categories |-> <<
     [name |-> "Groceries", config |-> [keywords |-> <<kA, kA>>, priority |-> 1]],
     [name |-> "Misc", config |-> [keywords |-> <<kC>>]] >>]

\* Other carries a keyword and the lowest priority number; two rules tie
TieRules ==
  [categories |-> <<
     [name |-> "Other", config |-> [keywords |-> <<kA>>, priority |-> 0]],
     [name |-> "Groceries", config |-> [keywords |-> <<kaB>>, priority |-> 1]],
     [name |-> "Housing", config |-> [keywords |-> <<kb>>, priority |-> 1]] >>,
   auto_tagging |-> <<
     [name |-> "home", config |-> [keywords |-> <<kC>>, categories |-> <<"Housing">>]] >>]

\* raises Pets above, adds keywords, adds a rule
PetsOverlay ==
  [categories |-> <<
     [name |-> "Pets", config |-> [keywords |-> <<kC, kA>>, priority |-> 5]],
     [name |-> "Fees", config |-> [keywords |-> <<kC>>, priority |-> 0]] >>]

\* switches require_negative off without naming keywords; extends Groceries
IncomeOverlay ==
  [categories |-> <<
     [name |-> "Income", config |-> [require_negative |-> FALSE]],
     [name |-> "Groceries", config |-> [keywords |-> <<kb, kA>>]],
     [name |-> "Travel", config |->
        [keywords |-> <<kA>>, require_negative |-> TRUE, priority |-> 3]] >>]

\* no category, one tag rule that extends "home" and one new tag rule
TagOverlay ==
  [categories |-> <<>>,
   auto_tagging |-> <<
     [name |-> "home", config |-> [keywords |-> <<kb>>, categories |-> <<"Other", "Housing">>]],
     [name |-> "fee", config |-> [keywords |-> <<>>, categories |-> <<"Groceries">>]] >>]

RuleFiles ==
  {Absent} \cup {JsonObject(d) :
     d \in {PriorityRules, IncomeRules, TravelRules, BareRules, TieRules}}

OverlayFiles ==
  {Absent} \cup {JsonObject(d) : d \in {PetsOverlay, IncomeOverlay, TagOverlay}}

\* files that are not a JSON object with a "categories" key
MalformedFiles ==
  {[kind |-> "text"], [kind |-> "null"], [kind |-> "number"], [kind |-> "boolean"],
   [kind |-> "string", has |-> FALSE], [kind |-> "string", has |-> TRUE],
   [kind |-> "array", has |-> FALSE], [kind |-> "array", has |-> TRUE],
   JsonObject([auto_tagging |-> <<>>])}

DescAlphabet == {"a", "B", "c"}

Descriptions ==
  Texts(DescAlphabet, 1, MaxDescLen) \cup
    {<<"G","a","s">>, <<"I","n","t","e","r","e","s","t">>,
     CASH_INTEREST, CASH_INTEREST \o <<" ","B">>}

Amounts == {-1, 0, 1}

(***************************************************************************)
(* Construction of the classifier from every kind of rule source.          *)
(***************************************************************************)
BuildInit ==
  /\ config_file \in RuleFiles \cup MalformedFiles
  /\ private_file \in OverlayFiles \cup MalformedFiles
  /\ classifier = NoClassifier
  /\ transactions = <<>>
  /\ manual_file = Absent
  /\ manual_transactions = <<>>
  /\ ToolsUnused
  /\ ret = NoCall

BuildNext == NewClassifier

BuildSpec == BuildInit /\ [][BuildNext]_vars

(***************************************************************************)
(* categorize on one transaction, over every well-formed rule source.      *)
(***************************************************************************)
CategorizeInit ==
  /\ config_file \in RuleFiles
  /\ private_file \in OverlayFiles
  /\ classifier = NoClassifier
  /\ transactions \in
       {<<Transaction(0, "chequing", d, a, "Other", <<>>)>> :
          d \in Descriptions, a \in Amounts}
  /\ manual_file = Absent
  /\ manual_transactions = <<>>
  /\ ToolsUnused
  /\ ret = NoCall

CategorizeNext ==
  \/ NewClassifier
  \/ \E i \in 1..Len(transactions) : Categorize(i)

CategorizeSpec == CategorizeInit /\ [][CategorizeNext]_vars

(***************************************************************************)
(* RecurringDetector.detect_recurring (recurring_detector.py).             *)
(* amount_tolerance is given in hundredths: 10 stands for 0.1.             *)
(***************************************************************************)
\* line 90: ' '.join(transaction.description.upper().split())
MerchantKey(transaction) == JoinSplit(upper(transaction.description))

\* lines 87-91: the members of a merchant's group, in input order
Group(history, merchant) ==
  LET member(t) == is_expense(t) /\ MerchantKey(t) = merchant
  IN  SelectSeq(history, member)

\* the keys of merchant_groups, in the order the loop first meets them
RECURSIVE GroupKeys(_, _)
GroupKeys(history, seen) ==
  IF history = <<>> THEN seen
  ELSE GroupKeys(Tail(history),
         IF is_expense(Head(history)) /\ MerchantKey(Head(history)) \notin Range(seen)
         THEN Append(seen, MerchantKey(Head(history)))
         ELSE seen)

\* line 100: transactions.sort(key=lambda t: t.date), a stable sort
SortByDate(list) ==
  LET n == Len(list)
      rank(i) == 1 + Cardinality({j \in 1..n :
                       list[j].date < list[i].date
                         \/ (list[j].date = list[i].date /\ j < i)})
  IN  [r \in 1..n |-> list[CHOOSE i \in 1..n : rank(i) = r]]

RECURSIVE Sum(_)
Sum(s) == IF s = <<>> THEN 0 ELSE Head(s) + Sum(Tail(s))

Max(s) == CHOOSE x \in Range(s) : \A y \in Range(s) : y <= x

Min(s) == CHOOSE x \in Range(s) : \A y \in Range(s) : x <= y

\* sum(xs) / len(xs), kept as the fraction
Mean(xs) == [num |-> Sum(xs), den |-> Len(xs)]

AmountsVaryAtAll(amounts, amount_tolerance) ==
  IF Min(amounts) > 0
  THEN 100 * Max(amounts) >= (100 + amount_tolerance) * Min(amounts)
  ELSE TRUE

\* lines 107-108: max(amounts) / min(amounts) > 1 + amount_tolerance
AmountsVary(amounts, amount_tolerance) ==
  IF Min(amounts) > 0
  THEN 100 * Max(amounts) > (100 + amount_tolerance) * Min(amounts)
  ELSE TRUE

IntervalsWithSameDay(sorted) ==
  [i \in 1..(Len(sorted) - 1) |-> sorted[i + 1].date - sorted[i].date]

\* lines 112-116: the day gaps of consecutive transactions, same-day gaps left out
Intervals(sorted) ==
  LET gaps == [i \in 1..(Len(sorted) - 1) |-> sorted[i + 1].date - sorted[i].date]
      positive(g) == g > 0
  IN  SelectSeq(gaps, positive)

\* lines 125-126: max(intervals) / min(intervals) > 2.0
IntervalsVary(intervals) ==
  IF Min(intervals) > 0 THEN Max(intervals) > 2 * Min(intervals) ELSE TRUE

RecurringAboveMinimum(group, min_occurrences, amount_tolerance) ==
  LET sorted == SortByDate(group)
      amounts == [i \in 1..Len(sorted) |-> abs(sorted[i].amount)]
      intervals == Intervals(sorted)
  IN  /\ Len(group) > min_occurrences
      /\ ~AmountsVary(amounts, amount_tolerance)
      /\ intervals # <<>>
      /\ ~IntervalsVary(intervals)

RecurringWithoutGaps(group, min_occurrences, amount_tolerance) ==
  LET sorted == SortByDate(group)
      amounts == [i \in 1..Len(sorted) |-> abs(sorted[i].amount)]
      intervals == Intervals(sorted)
  IN  /\ Len(group) >= min_occurrences
      /\ ~AmountsVary(amounts, amount_tolerance)
      /\ (intervals # <<>> => ~IntervalsVary(intervals))

\* the body of the loop over merchant_groups reaches line 129
Recurring(group, min_occurrences, amount_tolerance) ==
  LET sorted == SortByDate(group)
      amounts == [i \in 1..Len(sorted) |-> abs(sorted[i].amount)]
      intervals == Intervals(sorted)
  IN  /\ Len(group) >= min_occurrences
      /\ ~AmountsVary(amounts, amount_tolerance)
      /\ intervals # <<>>
      /\ ~IntervalsVary(intervals)

\* lines 129-135: the RecurringTransaction of a group
RecurringTransaction(merchant, group) ==
  LET sorted == SortByDate(group)
      intervals == Intervals(sorted)
  IN  [merchant |-> merchant,
       average_amount |-> Mean([i \in 1..Len(sorted) |-> abs(sorted[i].amount)]),
       interval_days |-> IF intervals = <<>> THEN [num |-> 0, den |-> 1]
                         ELSE Mean(intervals),
       last_date |-> sorted[Len(sorted)].date,
       count |-> Len(sorted)]

DetectFuzzy(history, min_occurrences, amount_tolerance, merchant_similarity) ==
  LET initial(t) == [t EXCEPT !.description = <<Head(@)>>]
      fuzzy == IF merchant_similarity < 100
               THEN [i \in 1..Len(history) |-> initial(history[i])]
               ELSE history
      keys == GroupKeys(fuzzy, <<>>)
      passes(k) == Recurring(Group(fuzzy, k), min_occurrences, amount_tolerance)
      kept == SelectSeq(keys, passes)
  IN  [i \in 1..Len(kept) |-> RecurringTransaction(kept[i], Group(fuzzy, kept[i]))]

\* detect_recurring: one pattern for each group that passes, in group order
detect_recurring(history, min_occurrences, amount_tolerance, merchant_similarity) ==
  LET keys == GroupKeys(history, <<>>)
      passes(k) == Recurring(Group(history, k), min_occurrences, amount_tolerance)
      kept == SelectSeq(keys, passes)
  IN  [i \in 1..Len(kept) |-> RecurringTransaction(kept[i], Group(history, kept[i]))]

\* the exception the loop body raises for a group, None when it raises none:
\* line 104 divides by len(amounts) and line 107 takes min(amounts); the
\* divisions of lines 107, 121 and 125 are behind the tests of lines 107, 118
\* and 125
GroupRaises(group, min_occurrences) ==
  IF Len(group) < min_occurrences THEN None
  ELSE IF Len(group) = 0 THEN "ZeroDivisionError"
  ELSE None

\* the exception detect_recurring ends with, None when it returns
DetectRaises(history, min_occurrences) ==
  LET keys == GroupKeys(history, <<>>)
      raising == {i \in 1..Len(keys) :
                    GroupRaises(Group(history, keys[i]), min_occurrences) # None}
  IN  IF raising = {} THEN None
      ELSE GroupRaises(Group(history, keys[CHOOSE i \in raising :
                                              \A j \in raising : i <= j]),
                       min_occurrences)

\* RecurringDetector(transactions).detect_recurring(min_occurrences, amount_tolerance)
DetectRecurring(min_occurrences, amount_tolerance, merchant_similarity) ==
  /\ ret' = [op |-> "detect_recurring", min_occurrences |-> min_occurrences,
             raised |-> DetectRaises(transactions, min_occurrences),
             amount_tolerance |-> amount_tolerance,
             merchant_similarity |-> merchant_similarity,
             value |-> detect_recurring(transactions, min_occurrences,
                                        amount_tolerance, merchant_similarity)]
  /\ UNCHANGED <<tools, manual_file, manual_transactions, config_file, private_file,
               classifier, transactions>>

(***************************************************************************)
(* The detector on every short history of a few charges.                   *)
(***************************************************************************)
\* (description, amount): a charge, a 10% dearer charge under another spelling
\* of the same merchant, a second merchant, a refund
Charges ==
  {<< <<"a">>, 10 >>, << <<" ","A">>, 11 >>, << <<"b">>, 10 >>, << <<"a">>, -10 >>}

Days == 0..2

MinOccurrences == 1..MaxHistory

\* 0.0 and the default 0.1
Tolerances == {0, 10}

\* the default 0.8, in hundredths
Similarities == {80}

Histories ==
  UNION {[1..n -> {Transaction(d, "visa", c[1], c[2], "Other", <<>>) :
                     c \in Charges, d \in Days}] : n \in 0..MaxHistory}

DetectorInit ==
  /\ config_file = Absent
  /\ private_file = Absent
  /\ classifier = NoClassifier
  /\ transactions \in Histories
  /\ manual_file = Absent
  /\ manual_transactions = <<>>
  /\ ToolsUnused
  /\ ret = NoCall

DetectorNext ==
  \E m \in MinOccurrences, tol \in Tolerances, sim \in Similarities :
    DetectRecurring(m, tol, sim)

DetectorSpec == DetectorInit /\ [][DetectorNext]_vars

(***************************************************************************)
(* The detector on one merchant charged on days up to four days apart.     *)
(***************************************************************************)
GapDays == 0..4

IntervalHistories ==
  UNION {[1..n -> {Transaction(d, "visa", <<"a">>, 10, "Other", <<>>) : d \in GapDays}] :
           n \in 0..MaxHistory}

IntervalInit ==
  /\ config_file = Absent
  /\ private_file = Absent
  /\ classifier = NoClassifier
  /\ transactions \in IntervalHistories
  /\ manual_file = Absent
  /\ manual_transactions = <<>>
  /\ ToolsUnused
  /\ ret = NoCall

IntervalNext ==
  \E m \in MinOccurrences, tol \in Tolerances, sim \in Similarities :
    DetectRecurring(m, tol, sim)

IntervalSpec == IntervalInit /\ [][IntervalNext]_vars

(***************************************************************************)
(* The detector on spellings of one merchant, with refunds and zero        *)
(* amounts among the charges.                                              *)
(***************************************************************************)
\* two spellings of one merchant, a zero amount, a refund, another merchant
SpelledCharges ==
  {<< <<"a", " ", " ", "b">>, 10 >>, << <<" ", "A", " ", "b">>, 10 >>,
   << <<"a", " ", " ", "b">>, 0 >>, << <<"a", " ", "b">>, -10 >>,
   << <<"a", "b">>, 10 >>}

SpellingDays == 0..1

SpelledHistories ==
  UNION {[1..n -> {Transaction(d, "visa", c[1], c[2], "Other", <<>>) :
                     c \in SpelledCharges, d \in SpellingDays}] : n \in 0..MaxHistory}

SpellingInit ==
  /\ config_file = Absent
  /\ private_file = Absent
  /\ classifier = NoClassifier
  /\ transactions \in SpelledHistories
  /\ manual_file = Absent
  /\ manual_transactions = <<>>
  /\ ToolsUnused
  /\ ret = NoCall

SpellingNext ==
  \E m \in MinOccurrences, tol \in Tolerances, sim \in Similarities :
    DetectRecurring(m, tol, sim)

SpellingSpec == SpellingInit /\ [][SpellingNext]_vars

(***************************************************************************)
(* Empty and short inputs, any min_occurrences.                            *)
(***************************************************************************)
ShortCharges == {<< <<"a">>, 10 >>, << <<"b">>, 10 >>, << <<"a">>, -10 >>}

ShortDays == 0..1

ShortHistories ==
  UNION {[1..n -> {Transaction(d, "visa", c[1], c[2], "Other", <<>>) :
                     c \in ShortCharges, d \in ShortDays}] : n \in 0..MaxTxns}

\* any integer is accepted as min_occurrences
AnyMinOccurrences == -1..(MaxTxns + 1)

DegenerateInit ==
  /\ config_file \in {Absent, JsonObject(TieRules)}
  /\ private_file = Absent
  /\ classifier = NoClassifier
  /\ transactions \in ShortHistories
  /\ manual_file = Absent
  /\ manual_transactions = <<>>
  /\ ToolsUnused
  /\ ret = NoCall

DegenerateNext ==
  \/ NewClassifier
  \/ CategorizeAll
  \/ \E m \in AnyMinOccurrences, tol \in Tolerances, sim \in Similarities :
       DetectRecurring(m, tol, sim)

DegenerateSpec == DegenerateInit /\ [][DegenerateNext]_vars

(***************************************************************************)
(* The detector on merchants that differ in one letter, at several values  *)
(* of merchant_similarity.                                                 *)
(***************************************************************************)
\* two merchants a letter apart and a second spelling of the first
SimilarCharges ==
  {<< <<"a", "b">>, 10 >>, << <<"a", "c">>, 10 >>, << <<" ", "A", "b">>, 10 >>}

\* 0.0, the default 0.8 and 1.0, in hundredths
SimilarityValues == {0, 80, 100}

SimilarHistories ==
  UNION {[1..n -> {Transaction(d, "visa", c[1], c[2], "Other", <<>>) :
                     c \in SimilarCharges, d \in SpellingDays}] : n \in 0..MaxHistory}

SimilarityInit ==
  /\ config_file = Absent
  /\ private_file = Absent
  /\ classifier = NoClassifier
  /\ transactions \in SimilarHistories
  /\ manual_file = Absent
  /\ manual_transactions = <<>>
  /\ ToolsUnused
  /\ ret = NoCall

SimilarityNext ==
  \E m \in MinOccurrences, tol \in Tolerances, sim \in SimilarityValues :
    DetectRecurring(m, tol, sim)

SimilaritySpec == SimilarityInit /\ [][SimilarityNext]_vars

(***************************************************************************)
(* RecurringTransaction.predict_next, is_due and RecurringDetector's       *)
(* find_missing and predict_future.  A point in time is a fraction of days *)
(* [num, den]; transaction dates and current_date are whole days.          *)
(***************************************************************************)
PredictsLastDate(recurring) ==
  [num |-> recurring.last_date * recurring.interval_days.den,
   den |-> recurring.interval_days.den]

\* lines 36-42: self.last_date + timedelta(days=self.interval_days)
predict_next(recurring) ==
  [num |-> recurring.last_date * recurring.interval_days.den
             + recurring.interval_days.num,
   den |-> recurring.interval_days.den]

\* lines 53-57: current_date >= next_date
is_due(recurring, current_date) ==
  LET next_date == predict_next(recurring)
  IN  current_date * next_date.den >= next_date.num

\* timedelta.days: the days of a difference, rounded towards minus infinity
days(delta) == delta.num \div delta.den

\* line 194: abs((transaction.date - expected_date).days)
date_diff(transaction, expected_date) ==
  abs(days([num |-> transaction.date * expected_date.den - expected_date.num,
            den |-> expected_date.den]))

\* lines 192-197: the transaction counts as the expected occurrence
Found(recurring, transaction) ==
  LET expected_date == predict_next(recurring)
      interval == recurring.interval_days
      average == recurring.average_amount
  IN  /\ is_expense(transaction)
      \* recurring.merchant.upper() in transaction.description.upper()
      /\ Contains(upper(recurring.merchant), upper(transaction.description))
      \* date_diff <= recurring.interval_days * 0.5
      /\ 2 * interval.den * date_diff(transaction, expected_date) <= interval.num
      \* abs(abs(amount) - average_amount) / average_amount <= 0.2
      /\ 5 * abs(abs(transaction.amount) * average.den - average.num) <= average.num

\* lines 182-204
find_missing(history, recurring_transactions, current_date) ==
  LET missing(recurring) ==
        /\ is_due(recurring, current_date)
        /\ \A i \in 1..Len(history) : ~Found(recurring, history[i])
  IN  SelectSeq(recurring_transactions, missing)

RECURSIVE PredictionsBeforeEnd(_, _, _)
PredictionsBeforeEnd(recurring, current_date, end_date) ==
  IF current_date.num < end_date * current_date.den
  THEN <<<<recurring, current_date>>>> \o
         PredictionsBeforeEnd(recurring,
                     [num |-> current_date.num + recurring.interval_days.num,
                      den |-> current_date.den],
                     end_date)
  ELSE <<>>

\* lines 156-161: the predictions of one pattern up to end_date
RECURSIVE Predictions(_, _, _)
Predictions(recurring, current_date, end_date) ==
  IF current_date.num <= end_date * current_date.den
  THEN <<<<recurring, current_date>>>> \o
         Predictions(recurring,
                     [num |-> current_date.num + recurring.interval_days.num,
                      den |-> current_date.den],
                     end_date)
  ELSE <<>>

\* x[1] < y[1] for two predictions
Earlier(x, y) == x[2].num * y[2].den < y[2].num * x[2].den

\* line 164: predictions.sort(key=lambda x: x[1]), a stable sort
SortByPredictedDate(predictions) ==
  LET n == Len(predictions)
      rank(i) == 1 + Cardinality({j \in 1..n :
                       Earlier(predictions[j], predictions[i])
                         \/ (~Earlier(predictions[i], predictions[j]) /\ j < i)})
  IN  [r \in 1..n |-> predictions[CHOOSE i \in 1..n : rank(i) = r]]

\* lines 155-161 over all patterns, in input order
RECURSIVE AllPredictions(_, _)
AllPredictions(recurring_transactions, end_date) ==
  IF recurring_transactions = <<>> THEN <<>>
  ELSE Predictions(Head(recurring_transactions),
                   predict_next(Head(recurring_transactions)), end_date)
         \o AllPredictions(Tail(recurring_transactions), end_date)

\* lines 152-166; now is the value of datetime.now()
predict_future(recurring_transactions, months_ahead, now) ==
  LET end_date == now + months_ahead * 30
  IN  SortByPredictedDate(AllPredictions(recurring_transactions, end_date))

\* RecurringDetector(transactions).find_missing(recurring_transactions, current_date)
FindMissing(recurring_transactions, current_date) ==
  /\ ret' = [op |-> "find_missing",
             recurring_transactions |-> recurring_transactions,
             current_date |-> current_date,
             value |-> find_missing(transactions, recurring_transactions,
                                    current_date)]
  /\ UNCHANGED <<tools, manual_file, manual_transactions, config_file, private_file,
               classifier, transactions>>

\* RecurringDetector(transactions).predict_future(recurring_transactions, months_ahead)
PredictFuture(recurring_transactions, months_ahead, now) ==
  /\ ret' = [op |-> "predict_future",
             recurring_transactions |-> recurring_transactions,
             months_ahead |-> months_ahead, now |-> now,
             value |-> predict_future(recurring_transactions, months_ahead, now)]
  /\ UNCHANGED <<tools, manual_file, manual_transactions, config_file, private_file,
               classifier, transactions>>

(***************************************************************************)
(* find_missing and predict_future on patterns detect_recurring produced.  *)
(***************************************************************************)
\* one merchant charged the same amount on the given days
PastCharges(description, amount, dates) ==
  [i \in 1..Len(dates) |->
     Transaction(dates[i], "visa", description, amount, "Other", <<>>)]

\* gaps of 13 and 14 days (mean 13.5, next on day 40.5); one gap of 20 days
\* (next on day 40)
PastHistories ==
  {PastCharges(<<"a">>, 10, <<0, 13, 27>>),
   PastCharges(<<"b">>, 10, <<0, 20>>)}

KnownPatterns ==
  UNION {Range(detect_recurring(h, 2, 10, 80)) : h \in PastHistories}

PatternLists == UNION {[1..n -> KnownPatterns] : n \in 0..MaxPatterns}

\* what the detector holds when it is asked: charges 6.5 days before and after
\* the day 40.5, a charge 20% dearer under a longer description, a charge 30%
\* dearer, a refund, a charge of the second merchant 10 days early
SeenCharges ==
  {Transaction(34, "visa", <<"a">>, 10, "Other", <<>>),
   Transaction(47, "visa", <<"a">>, 10, "Other", <<>>),
   Transaction(41, "visa", <<"x", "a">>, 12, "Other", <<>>),
   Transaction(41, "visa", <<"a">>, 13, "Other", <<>>),
   Transaction(41, "visa", <<"a">>, -10, "Other", <<>>),
   Transaction(30, "visa", <<"b">>, 10, "Other", <<>>)}

SeenHistories == UNION {[1..n -> SeenCharges] : n \in 0..MaxSeen}

CurrentDates == {40, 41}

MonthsAhead == {0, 1}

Nows == {10, 30}

PatternInit ==
  /\ config_file = Absent
  /\ private_file = Absent
  /\ classifier = NoClassifier
  /\ transactions \in SeenHistories
  /\ manual_file = Absent
  /\ manual_transactions = <<>>
  /\ ToolsUnused
  /\ ret = NoCall

PatternNext ==
  \/ \E ps \in PatternLists, current_date \in CurrentDates :
       FindMissing(ps, current_date)
  \/ \E ps \in PatternLists, months_ahead \in MonthsAhead, now \in Nows :
       PredictFuture(ps, months_ahead, now)

PatternSpec == PatternInit /\ [][PatternNext]_vars

(***************************************************************************)
(* Auto-tagging and categorize_all on short transaction lists.             *)
(***************************************************************************)
\* the rule file of test_auto_tagging, with a tag rule on a category
WorkRules ==
  [categories |-> <<
     [name |-> "Work", config |-> [keywords |-> <<kA>>, priority |-> 1]],
     OtherRule >>,
   auto_tagging |-> <<
     [name |-> "tax-deductible", config |-> [keywords |-> <<kA>>, categories |-> <<>>]],
     [name |-> "review", config |-> [keywords |-> <<>>, categories |-> <<"Other">>]] >>]

TagFiles == {JsonObject(TieRules), JsonObject(WorkRules)}

TagOverlayFiles == {Absent, JsonObject(TagOverlay)}

\* transactions as a caller may hand them over: a category and tags already set
TaggedTransactions ==
  {Transaction(0, "chequing", d, 1, c, tags) :
     d \in {<<"a">>, <<"B">>, <<"c">>},
     c \in {"Other", "Housing"},
     tags \in {<<>>, <<"x", "home", "x">>}}

TaggingInit ==
  /\ config_file \in TagFiles
  /\ private_file \in TagOverlayFiles
  /\ classifier = NoClassifier
  /\ transactions \in UNION {[1..n -> TaggedTransactions] : n \in 0..MaxTxns}
  /\ manual_file = Absent
  /\ manual_transactions = <<>>
  /\ ToolsUnused
  /\ ret = NoCall

TaggingNext ==
  \/ NewClassifier
  \/ \E i \in 1..Len(transactions) : ApplyAutoTags(i)
  \/ CategorizeAll

TaggingSpec == TaggingInit /\ [][TaggingNext]_vars

(***************************************************************************)
(* Construction of transactions from arbitrary arguments.                  *)
(***************************************************************************)
AccountTypes == {"chequing", "visa", "savings", "Visa", ""}

NewDescriptions == Texts({"a", " "}, 0, MaxNewDescLen)

TransactionInit ==
  /\ config_file = Absent
  /\ private_file = Absent
  /\ classifier = NoClassifier
  /\ transactions = <<>>
  /\ manual_file = Absent
  /\ manual_transactions = <<>>
  /\ ToolsUnused
  /\ ret = NoCall

TransactionNext ==
  \E account_type \in AccountTypes, description \in NewDescriptions :
    NewTransaction(0, account_type, description, 1)

TransactionSpec == TransactionInit /\ [][TransactionNext]_vars

(***************************************************************************)
(* TransactionManager (transaction_manager.py).  A date is a record:       *)
(* a datetime object, the ISO string of a day, or some other string.       *)
(***************************************************************************)
Datetime(day) == [kind |-> "datetime", day |-> day]

\* datetime.isoformat()
isoformat(date) == [kind |-> "iso", day |-> date.day]

\* datetime.fromisoformat(s) returns; it raises ValueError otherwise
IsIsoFormat(s) == s.kind = "iso"

\* datetime.fromisoformat(s), the day of the string
fromisoformat(s) == s.day

\* lines 69-79: the dict add_transaction stores
transaction_data(date, account_type, description, amount) ==
  [date |-> isoformat(date), account_type |-> account_type,
   description |-> description, amount |-> amount, category |-> "Other",
   subcategory |-> None, credit_card |-> None, tags |-> <<>>, notes |-> None]

\* lines 102-107: transaction.update(kwargs), a datetime date put back as ISO
Updated(transaction, kwargs) ==
  LET merged == [k \in DOMAIN transaction \cup DOMAIN kwargs |->
                   IF k \in DOMAIN kwargs THEN kwargs[k] ELSE transaction[k]]
  IN  IF "date" \in DOMAIN kwargs /\ kwargs.date.kind = "datetime"
      THEN [merged EXCEPT !.date = isoformat(kwargs.date)]
      ELSE merged

ConstructibleByDate(data) ==
  /\ {"date", "account_type", "description", "amount"} \subseteq DOMAIN data
  /\ IsIsoFormat(data.date)

\* lines 137-151: the try block raises neither KeyError nor ValueError
Constructible(data) ==
  /\ {"date", "account_type", "description", "amount"} \subseteq DOMAIN data
  /\ IsIsoFormat(data.date)
  /\ __post_init__(data.account_type, data.description) = "ok"

\* lines 138-149: the Transaction of a stored dict
FromData(data) ==
  [Transaction(fromisoformat(data.date), data.account_type, data.description,
               data.amount, Get(data, "category", "Other"), Get(data, "tags", <<>>))
     EXCEPT !.subcategory = Get(data, "subcategory", None),
            !.credit_card = Get(data, "credit_card", None),
            !.notes = Get(data, "notes", None)]

\* lines 134-155: one Transaction for each dict that constructs, the others skipped
get_manual_transactions(stored) ==
  LET kept == SelectSeq(stored, Constructible)
  IN  [i \in 1..Len(kept) |-> FromData(kept[i])]

\* lines 69-84; _save_manual_transactions writes the list to the file
AddTransaction(date, account_type, description, amount) ==
  /\ Len(manual_transactions) < MaxManual
  /\ manual_transactions' =
       Append(manual_transactions,
              transaction_data(date, account_type, description, amount))
  /\ manual_file' = JsonObject(manual_transactions')
  /\ ret' = [op |-> "add_transaction",
             value |-> transaction_data(date, account_type, description, amount)]
  /\ UNCHANGED <<tools, config_file, private_file, classifier, transactions>>

\* lines 99-111; index counts from 0
EditTransaction(index, kwargs) ==
  IF index < 0 \/ index >= Len(manual_transactions)
  THEN /\ ret' = [op |-> "edit_transaction", index |-> index, raised |-> "IndexError"]
       /\ UNCHANGED <<tools, manual_file, manual_transactions, config_file, private_file,
                      classifier, transactions>>
  ELSE /\ manual_transactions' =
            [manual_transactions EXCEPT
               ![index + 1] = Updated(manual_transactions[index + 1], kwargs)]
       /\ manual_file' = JsonObject(manual_transactions')
       /\ ret' = [op |-> "edit_transaction", index |-> index, raised |-> None]
       /\ UNCHANGED <<tools, config_file, private_file, classifier, transactions>>

DeleteWrapping(index) ==
  LET n == Len(manual_transactions)
      at == IF index < 0 THEN index + n ELSE index
  IN  IF at < 0 \/ at >= n
      THEN /\ ret' = [op |-> "delete_transaction", index |-> index,
                      raised |-> "IndexError"]
           /\ UNCHANGED <<tools, manual_file, manual_transactions, config_file, private_file,
                          classifier, transactions>>
      ELSE /\ manual_transactions' =
                [i \in 1..(n - 1) |->
                   IF i <= at THEN manual_transactions[i] ELSE manual_transactions[i + 1]]
           /\ manual_file' = JsonObject(manual_transactions')
           /\ ret' = [op |-> "delete_transaction", index |-> index, raised |-> None]
           /\ UNCHANGED <<tools, config_file, private_file, classifier, transactions>>

\* lines 122-126; index counts from 0
DeleteTransaction(index) ==
  IF index < 0 \/ index >= Len(manual_transactions)
  THEN /\ ret' = [op |-> "delete_transaction", index |-> index, raised |-> "IndexError"]
       /\ UNCHANGED <<tools, manual_file, manual_transactions, config_file, private_file,
                      classifier, transactions>>
  ELSE /\ manual_transactions' =
            [i \in 1..(Len(manual_transactions) - 1) |->
               IF i <= index THEN manual_transactions[i] ELSE manual_transactions[i + 1]]
       /\ manual_file' = JsonObject(manual_transactions')
       /\ ret' = [op |-> "delete_transaction", index |-> index, raised |-> None]
       /\ UNCHANGED <<tools, config_file, private_file, classifier, transactions>>

\* lines 134-155
GetManualTransactions ==
  /\ ret' = [op |-> "get_manual_transactions",
             value |-> get_manual_transactions(manual_transactions)]
  /\ UNCHANGED <<tools, manual_file, manual_transactions, config_file, private_file,
                 classifier, transactions>>

(***************************************************************************)
(* The manager under add, edit, delete and get.                            *)
(***************************************************************************)
\* an account type Transaction accepts and one it rejects
ManualAccountTypes == {"chequing", "savings"}

\* keyword arguments of edit_transaction: a blank description, a datetime, a
\* string that is no ISO date
EditArguments ==
  {[description |-> <<" ">>], [date |-> Datetime(2)], [date |-> [kind |-> "text"]]}

\* lines 26-39: no file at manual_transactions_path, the list is empty
ManagerInit ==
  /\ config_file = Absent
  /\ private_file = Absent
  /\ classifier = NoClassifier
  /\ transactions = <<>>
  /\ manual_file = Absent
  /\ manual_transactions = <<>>
  /\ ToolsUnused
  /\ ret = NoCall

ManagerNext ==
  \/ \E account_type \in ManualAccountTypes :
       AddTransaction(Datetime(1), account_type, <<"a">>, 10)
  \/ \E index \in -1..MaxManual, kwargs \in EditArguments :
       EditTransaction(index, kwargs)
  \/ \E index \in -1..MaxManual : DeleteTransaction(index)
  \/ GetManualTransactions

ManagerSpec == ManagerInit /\ [][ManagerNext]_vars

(***************************************************************************)
(* TransactionManager.merge_transactions.  Notes are strings, None is the  *)
(* value of a missing one.                                                 *)
(***************************************************************************)
\* the truth value Python gives notes: None and '' are false
HasNotes(notes) == notes # None /\ notes # ""

\* lines 212-219: the notes of both that are not empty, joined by " | "
combined_notes(notes1, notes2) ==
  IF HasNotes(notes1) /\ HasNotes(notes2) THEN notes1 \o " | " \o notes2
  ELSE IF HasNotes(notes1) THEN notes1
  ELSE IF HasNotes(notes2) THEN notes2
  ELSE None

\* lines 209-232: list(set(tags1 + tags2)) lists in any order; account_id is
\* not handed to Transaction and takes its default
merge_transactions(transaction1, transaction2) ==
  {[Transaction(transaction1.date, transaction1.account_type,
                transaction1.description, transaction1.amount,
                transaction1.category, combined_tags)
      EXCEPT !.subcategory = transaction1.subcategory,
             !.credit_card = transaction1.credit_card,
             !.notes = combined_notes(transaction1.notes, transaction2.notes)] :
     combined_tags \in ListsOf(Range(transaction1.tags \o transaction2.tags))}

\* manager.merge_transactions(transactions[i], transactions[j])
MergeTransactions(i, j) ==
  /\ \E merged \in merge_transactions(transactions[i], transactions[j]) :
       ret' = [op |-> "merge_transactions", transaction1 |-> transactions[i],
               transaction2 |-> transactions[j], value |-> merged]
  /\ UNCHANGED <<tools, manual_file, manual_transactions, config_file, private_file,
                 classifier, transactions>>

\* transactions as a caller may hold them, with tags, notes and an account
MergeCandidates ==
  {[Transaction(d, "visa", <<"a">>, 10, "Other", tags)
      EXCEPT !.notes = notes, !.account_id = account_id] :
     d \in {1, 2},
     tags \in {<<>>, <<"x", "y">>, <<"y", "x", "x">>},
     notes \in {None, "", "n1", "n2"},
     account_id \in {None, "acc"}}

MergeInit ==
  /\ config_file = Absent
  /\ private_file = Absent
  /\ classifier = NoClassifier
  /\ transactions \in [1..2 -> MergeCandidates]
  /\ manual_file = Absent
  /\ manual_transactions = <<>>
  /\ ToolsUnused
  /\ ret = NoCall

MergeNext == \E i, j \in 1..Len(transactions) : MergeTransactions(i, j)

MergeSpec == MergeInit /\ [][MergeNext]_vars

(***************************************************************************)
(* Properties of categorize.                                               *)
(***************************************************************************)
\* the keyword occurs in the description when case is ignored
OccursIn(keyword, description) ==
  \E i \in 0..(Len(description) - Len(keyword)) :
    \A j \in 1..Len(keyword) : UpperChar(description[i + j]) = UpperChar(keyword[j])

\* a rule other than the fallback, one of whose keywords occurs in the description
KeywordRule(entry, description) ==
  /\ entry.name # "Other"
  /\ \E k \in 1..Len(Get(entry.config, "keywords", <<>>)) :
       OccursIn(entry.config.keywords[k], description)

\* the rule is not passed over for the sign of the amount, and one of its
\* occurring keywords is not the vetoed Travel keyword
Applicable(entry, transaction) ==
  /\ entry.name # "Other"
  /\ ~(Get(entry.config, "require_negative", FALSE) /\ transaction.amount >= 0)
  /\ \E k \in 1..Len(Get(entry.config, "keywords", <<>>)) :
       /\ OccursIn(entry.config.keywords[k], transaction.description)
       /\ ~(/\ entry.name = "Travel"
            /\ upper(entry.config.keywords[k]) = CASH_INTEREST
            /\ transaction.amount < 0)

\* R1 and R2 of the priority invariant, at positions i and j of the rule order
BothMatch(i, j) ==
  LET rules == classifier.categories
  IN  /\ KeywordRule(rules[i], ret.transaction.description)
      /\ KeywordRule(rules[j], ret.transaction.description)
      /\ Priority(rules[i].config) < Priority(rules[j].config)

\* C1 as claimed: whenever keywords of two rules R1 and R2 (neither the fallback)
\* occur in the description and priority(R1) < priority(R2), categorize returns
\* R1's category.
C1_PriorityAsClaimed ==
  ret.op = "categorize" =>
    \A i, j \in 1..Len(classifier.categories) :
      BothMatch(i, j) => ret.value = classifier.categories[i].name

\* C1, amended: if moreover R1 is applicable to the transaction (not skipped by
\* require_negative, its occurring keyword not vetoed), categorize never returns
\* R2's category, and it returns R1's category when no applicable rule comes
\* before R1 in the sorted rule order.
C1_Priority ==
  ret.op = "categorize" =>
    \A i, j \in 1..Len(classifier.categories) :
      (BothMatch(i, j) /\ Applicable(classifier.categories[i], ret.transaction)) =>
        /\ ret.value # classifier.categories[j].name
        /\ (\A h \in 1..(i - 1) : ~Applicable(classifier.categories[h], ret.transaction))
             => ret.value = classifier.categories[i].name

\* C1 witness: two matching rules of different priority, the first applicable and
\* returned, in a rule file that declares them the other way round
C1_Witness ==
  /\ ret.op = "categorize"
  /\ config_file = JsonObject(PriorityRules)
  /\ \E i, j \in 1..Len(classifier.categories) :
       /\ BothMatch(i, j)
       /\ Applicable(classifier.categories[i], ret.transaction)
       /\ classifier.categories[j].name = "Housing"
       /\ ret.value = classifier.categories[i].name

C3_RequireNegative ==
  (ret.op = "categorize" /\ ret.transaction.amount >= 0) =>
    LET rules == classifier.categories
        flagged(i) == Get(rules[i].config, "require_negative", FALSE)
        live == {i \in 1..Len(rules) :
                   ~flagged(i) /\ KeywordRule(rules[i], ret.transaction.description)}
    IN  /\ \A i \in 1..Len(rules) :
             (flagged(i) /\ rules[i].name # "Other") => ret.value # rules[i].name
        /\ ret.value = IF live = {} THEN "Other"
                       ELSE rules[CHOOSE i \in live : \A j \in live : i <= j].name

\* C3 witness: amount zero, a require_negative rule whose keyword occurs is
\* passed over and a later rule is returned
C3_Witness ==
  /\ ret.op = "categorize"
  /\ ret.transaction.amount = 0
  /\ \E i, j \in 1..Len(classifier.categories) :
       /\ i < j
       /\ Get(classifier.categories[i].config, "require_negative", FALSE)
       /\ KeywordRule(classifier.categories[i], ret.transaction.description)
       /\ ret.value = classifier.categories[j].name
       /\ ret.value # "Other"

(***************************************************************************)
(* Properties of the constructor.                                          *)
(***************************************************************************)
\* the names the base file and the overlay file both define
SharedCategories ==
  {n \in Range(Keys(config_file.value.categories)) :
     HasKey(private_file.value.categories, n)}

BaseKeywords(n) == Get(Item(config_file.value.categories, n), "keywords", <<>>)

OverlayKeywords(n) == Get(Item(private_file.value.categories, n), "keywords", <<>>)

\* a classifier was built from a base file and an overlay file
Merged ==
  classifier.status = "ok" /\ Exists(config_file) /\ Exists(private_file)

\* C4: after the merge, the keywords of a category of both files are exactly
\* the union of the base's and the overlay's, each listed once; no base keyword
\* is lost, whether or not the overlay gives a priority.
C4_MergeUnion ==
  Merged =>
    \A n \in SharedCategories :
      LET merged == Item(classifier.categories, n).keywords
      IN  /\ Range(merged) = Range(BaseKeywords(n)) \cup Range(OverlayKeywords(n))
          /\ Len(merged) = Cardinality(Range(merged))
          /\ Range(BaseKeywords(n)) \subseteq Range(merged)

\* C4 witness: a merged category whose overlay gives a priority and a keyword
\* the base lacks, and whose base has a keyword the overlay lacks
C4_Witness ==
  /\ Merged
  /\ \E n \in SharedCategories :
       /\ "priority" \in DOMAIN Item(private_file.value.categories, n)
       /\ Range(OverlayKeywords(n)) \ Range(BaseKeywords(n)) # {}
       /\ Range(BaseKeywords(n)) \ Range(OverlayKeywords(n)) # {}

\* the file exists and is not parseable JSON, or has no top-level "categories" key
MalformedSource(file) ==
  /\ Exists(file)
  /\ \/ file.kind # "object"
     \/ "categories" \notin DOMAIN file.value

\* C9 as claimed: when the base file, or beside an existing base file the overlay
\* file, exists and is malformed, the constructor raises ValueError.
C9_FailFastAsClaimed ==
  (/\ ret.op = "CategoryClassifier"
   /\ \/ MalformedSource(config_file)
      \/ Exists(config_file) /\ MalformedSource(private_file))
    => classifier.status = "ValueError"

(***************************************************************************)
(* Properties of auto-tagging and categorize_all.                          *)
(***************************************************************************)
Occurrences(s, x) == Cardinality({k \in 1..Len(s) : s[k] = x})

\* C5: a second _apply_auto_tags on the same transaction leaves the tag list of
\* the first, and a tag that auto-tagging added is in the list once.
C5_AutoTagIdempotent ==
  ret.op = "_apply_auto_tags" =>
    LET before == ret.before.tags
        after == transactions[ret.index].tags
    IN  /\ ret.repeated => after = before
        /\ \A tag \in Range(after) \ Range(before) : Occurrences(after, tag) = 1

\* C5 witness: the second of two applications in a row, on a transaction that
\* auto-tagging gave two tags
C5_Witness ==
  /\ ret.op = "_apply_auto_tags"
  /\ ret.repeated
  /\ Cardinality(Range(transactions[ret.index].tags) \ {"x", "home"}) = 2

\* the tag rule holds of a transaction: a keyword occurs in the description, or
\* the category is one of the rule's
RuleHolds(config, description, category) ==
  \/ \E k \in 1..Len(Get(config, "keywords", <<>>)) :
       OccursIn(config.keywords[k], description)
  \/ category \in Range(Get(config, "categories", <<>>))

\* the tags categorize_all leaves: the old ones, then, in rule order, the absent
\* tags whose rule holds of the transaction under the category just assigned
TagsExpected(old, new_category) ==
  LET rules == classifier.auto_tagging_rules
      added(name) == /\ name \notin Range(old.tags)
                     /\ RuleHolds(Item(rules, name), old.description, new_category)
  IN  old.tags \o SelectSeq(Keys(rules), added)

WellFormed(account_type, description) ==
  /\ account_type = "chequing" \/ account_type = "visa"
  /\ \E i \in 1..Len(description) : description[i] \notin Whitespace

\* C10: construction succeeds exactly when the account type is 'chequing' or
\* 'visa' and the description is not blank; otherwise ValueError is raised and
\* no Transaction comes to exist; every Transaction that exists is well-formed.
C10_Construction ==
  /\ ret.op = "Transaction" =>
       /\ ret.outcome = "ok" <=> WellFormed(ret.account_type, ret.description)
       /\ ret.outcome # "ok" => ret.outcome = "ValueError" /\ transactions = ret.before
       /\ ret.outcome = "ok" => Len(transactions) = Len(ret.before) + 1
  /\ \A i \in 1..Len(transactions) :
       WellFormed(transactions[i].account_type, transactions[i].description)

\* C10 witness: a valid account type with a description of blanks only is refused
C10_Witness ==
  /\ ret.op = "Transaction"
  /\ ret.account_type = "visa"
  /\ ret.description = <<" ", " ">>
  /\ ret.outcome = "ValueError"
  /\ Len(transactions) = 1

(***************************************************************************)
(* find_missing on the patterns detect_recurring finds in the detector's   *)
(* own transactions.                                                       *)
(***************************************************************************)
\* a merchant and a second one whose description contains the first's key,
\* charged on days 0, 2, 3 and 4
OwnCharges ==
  {Transaction(d, "visa", description, 10, "Other", <<>>) :
     d \in {0, 2, 3, 4}, description \in {<<"a">>, <<"x", "a">>}}

OwnHistories == UNION {[1..n -> OwnCharges] : n \in 0..MaxHistory}

OwnMinimums == {2, 3}

OwnDates == {3, 5}

OwnGroupInit ==
  /\ config_file = Absent
  /\ private_file = Absent
  /\ classifier = NoClassifier
  /\ transactions \in OwnHistories
  /\ manual_file = Absent
  /\ manual_transactions = <<>>
  /\ ToolsUnused
  /\ ret = NoCall

OwnGroupNext ==
  \/ \E m \in OwnMinimums : DetectRecurring(m, 10, 80)
  \/ \E m \in OwnMinimums, current_date \in OwnDates :
       FindMissing(detect_recurring(transactions, m, 10, 80), current_date)

OwnGroupSpec == OwnGroupInit /\ [][OwnGroupNext]_vars

(***************************************************************************)
(* InteractiveCategorizer.save_keyword_to_config on the file at            *)
(* private_config_path.                                                    *)
(***************************************************************************)
\* lines 304-307: the structure of a new config
NewConfig == [auto_tagging |-> <<>>, categories |-> <<>>]

\* lines 315-318: the entry of a new category
NewCategory == [keywords |-> <<>>, priority |-> 1]

\* lines 295-337 on the content of the file: what the call returns or raises
\* and the content it leaves.  Text that json.load rejects returns False; a
\* document that is no object raises TypeError at line 310 or 314.
save_keyword_to_config(file, merchant, category) ==
  CASE file.kind = "text" -> [raises |-> None, value |-> FALSE, file |-> file]
    [] file.kind \in {"null", "number", "boolean", "string", "array"} ->
         [raises |-> "TypeError", value |-> None, file |-> file]
    [] OTHER ->
         LET loaded == IF Exists(file) THEN file.value ELSE NewConfig
             config == IF "categories" \in DOMAIN loaded THEN loaded
                       ELSE Put(loaded, "categories", <<>>)
             categories == IF HasKey(config.categories, category)
                           THEN config.categories
                           ELSE SetItem(config.categories, category, NewCategory)
             entry == Item(categories, category)
             keywords == Get(entry, "keywords", <<>>)
             added == SetItem(categories, category,
                              Put(entry, "keywords", Append(keywords, merchant)))
         IN  IF merchant \notin Range(keywords)
             THEN [raises |-> None, value |-> TRUE,
                   file |-> JsonObject([config EXCEPT !.categories = added])]
             ELSE [raises |-> None, value |-> FALSE, file |-> file]

\* lines 272-277: the flag and the backup files after _backup_config
_backup_config(created, backups, file) ==
  IF ~created /\ Exists(file)
  THEN [created |-> TRUE, backups |-> Append(backups, file)]
  ELSE [created |-> created, backups |-> backups]

\* lines 292-337: _backup_config, then the load and the write
SaveKeywordToConfig(merchant, category) ==
  LET backup == _backup_config(config_backup_created, backup_files, private_file)
      outcome == save_keyword_to_config(private_file, merchant, category)
  IN  /\ backup_files' = backup.backups
      /\ config_backup_created' = backup.created
      /\ private_file' = outcome.file
      /\ ret' = [op |-> "save_keyword_to_config", merchant |-> merchant,
                 category |-> category, raised |-> outcome.raises,
                 value |-> outcome.value]
      /\ UNCHANGED <<config_file, classifier, transactions, manual_file,
                     manual_transactions, budget_manager, output_dir, disk>>

\* what may be at config_path when the InteractiveCategorizer is made
KeywordFiles ==
  {Absent, [kind |-> "text"], [kind |-> "null"], JsonObject(PetsOverlay),
   JsonObject([auto_tagging |-> <<>>])}

KeywordMerchants == {<<"A">>, <<"M">>}

KeywordCategories == {"Pets", "Food"}

\* lines 28-30
KeywordInit ==
  /\ config_file = Absent
  /\ private_file \in KeywordFiles
  /\ classifier = NoClassifier
  /\ transactions = <<>>
  /\ manual_file = Absent
  /\ manual_transactions = <<>>
  /\ ToolsUnused
  /\ ret = NoCall

KeywordNext ==
  \E merchant \in KeywordMerchants, category \in KeywordCategories :
    SaveKeywordToConfig(merchant, category)

KeywordSpec == KeywordInit /\ [][KeywordNext]_vars

(***************************************************************************)
(* InteractiveCategorizer.categorize_interactively.  What the user types   *)
(* is an argument of the call: the list get_transaction_selection returns  *)
(* (<<>> for None, it returns no empty list) and one answer for each       *)
(* selected transaction.                                                   *)
(***************************************************************************)
\* where the run of whitespace that ends just before position last begins
RunStart(s, last) ==
  CHOOSE p \in 1..last :
    /\ \A q \in p..(last - 1) : s[q] \in Whitespace
    /\ p > 1 => s[p - 1] \notin Whitespace

\* line 226: re.sub(r'\s*-\s*[^-]*$', '', merchant) cuts from the whitespace
\* before the last '-'
DropDashTail(s) ==
  LET dashes == {i \in 1..Len(s) : s[i] = "-"}
  IN  IF dashes = {} THEN s
      ELSE LET last == CHOOSE i \in dashes : \A j \in dashes : j <= i
           IN  SubSeq(s, 1, RunStart(s, last) - 1)

\* line 227: re.sub(r'\s*-\s*$', '', merchant) cuts a '-' that ends the text,
\* with the whitespace around it
DropTrailingDash(s) ==
  LET solid == {i \in 1..Len(s) : s[i] \notin Whitespace}
  IN  IF solid = {} THEN s
      ELSE LET last == CHOOSE i \in solid : \A j \in solid : j <= i
           IN  IF s[last] = "-" THEN SubSeq(s, 1, RunStart(s, last) - 1) ELSE s

\* lines 198-236 on a description of letters, spaces and '-'.  The prefix,
\* province, postal code, city and number patterns of lines 201-223 and 230-231
\* need '*', 'TST-', ',', a digit, '#' or a city name and leave such a text alone.
extract_merchant_keyword(description) ==
  JoinSplit(DropTrailingDash(DropDashTail(strip(upper(description)))))

\* lines 370-371: sorted(..., key=lambda t: t.date, reverse=True) as the
\* positions of the list, latest date first, equal dates in list order
DisplayOrder(list) ==
  LET n == Len(list)
      rank(i) == 1 + Cardinality({j \in 1..n :
                       list[j].date > list[i].date
                         \/ (list[j].date = list[i].date /\ j < i)})
  IN  [r \in 1..n |-> CHOOSE i \in 1..n : rank(i) = r]

\* lines 352-360
NewStats(total) ==
  [total |-> total, selected |-> 0, reviewed |-> 0, accepted |-> 0,
   re_categorized |-> 0, keywords_added |-> 0, skipped |-> 0]

\* stats[key] += n
Add(stats, key, n) == [stats EXCEPT ![key] = @ + n]

RemainingWithCurrent(selected_indices, idx) == Len(selected_indices) - idx + 1

\* lines 409 and 413: len(selected_indices) - idx
Remaining(selected_indices, idx) == Len(selected_indices) - idx

\* lines 389-434 from the idx-th selected transaction on.  An answer is what
\* get_user_category_choice returns ("enter" for the current category, "skip"
\* for None, else the category picked), the reply to "Continue?" and the reply
\* of confirm_keyword_addition.
RECURSIVE Review(_, _, _, _, _)
Review(st, order, selected_indices, answers, idx) ==
  IF idx > Len(selected_indices) \/ st.raised # None THEN st
  ELSE
    LET at == order[selected_indices[idx] + 1]
        transaction == st.list[at]
        original_category == transaction.category
        answer == answers[idx]
        new_category == IF answer.choice = "enter" THEN original_category
                        ELSE answer.choice
        next(after) == Review(after, order, selected_indices, answers, idx + 1)
    IN  IF answer.choice = "skip"
        THEN LET skipped == [st EXCEPT !.stats = Add(@, "skipped", 1)]
             IN  IF idx < Len(selected_indices) /\ ~answer.continue
                 THEN [skipped EXCEPT
                         !.stats = Add(@, "skipped", Remaining(selected_indices, idx))]
                 ELSE next(skipped)
        ELSE IF new_category = original_category
        THEN next([st EXCEPT !.stats = Add(Add(@, "reviewed", 1), "accepted", 1)])
        ELSE
          LET counted == Add(Add(st.stats, "reviewed", 1), "re_categorized", 1)
              moved == [st.list EXCEPT ![at].category = new_category]
              merchant == extract_merchant_keyword(transaction.description)
              backup == _backup_config(st.created, st.backups, st.file)
              outcome == save_keyword_to_config(st.file, merchant, new_category)
          IN  IF merchant = <<>> \/ ~answer.confirm
              THEN next([st EXCEPT !.stats = counted, !.list = moved])
              ELSE next([stats |-> IF outcome.raises = None /\ outcome.value
                                   THEN Add(counted, "keywords_added", 1)
                                   ELSE counted,
                         list |-> moved, file |-> outcome.file,
                         created |-> backup.created, backups |-> backup.backups,
                         raised |-> outcome.raises])

\* lines 352-436
categorize_interactively(list, c, file, created, backups, selected_indices, answers) ==
  LET categorized == categorize_all(c, list)
      start == [stats |-> NewStats(Len(list)), list |-> list, file |-> file,
                created |-> created, backups |-> backups, raised |-> None]
  IN  IF list = <<>> THEN start
      ELSE IF selected_indices = <<>> THEN [start EXCEPT !.list = categorized]
      ELSE Review([start EXCEPT !.list = categorized,
                                !.stats.selected = Len(selected_indices)],
                  DisplayOrder(categorized), selected_indices, answers, 1)

\* categorizer.categorize_interactively(transactions, classifier, config_path)
CategorizeInteractively(selected_indices, answers) ==
  /\ classifier.status = "ok"
  /\ \E end \in {categorize_interactively(transactions, classifier, private_file,
                                          config_backup_created, backup_files,
                                          selected_indices, answers)} :
         /\ transactions' = end.list
         /\ private_file' = end.file
         /\ config_backup_created' = end.created
         /\ backup_files' = end.backups
         /\ ret' = [op |-> "categorize_interactively",
                    selected_indices |-> selected_indices,
                    raised |-> end.raised, value |-> end.stats]
  /\ UNCHANGED <<config_file, classifier, manual_file, manual_transactions,
                 budget_manager, output_dir, disk>>

\* the lists get_transaction_selection may return for n transactions: <<>>
\* for None, else distinct 0-based positions
Selections(n) ==
  {<<>>} \cup {s \in UNION {[1..k -> 0..(n - 1)] : k \in 1..n} :
                 \A i, j \in 1..Len(s) : i # j => s[i] # s[j]}

\* accept, skip and go on, skip and stop, or pick a category and confirm or
\* refuse the keyword
SessionAnswers(category_list) ==
  {[choice |-> "enter", continue |-> TRUE, confirm |-> TRUE],
   [choice |-> "skip", continue |-> TRUE, confirm |-> TRUE],
   [choice |-> "skip", continue |-> FALSE, confirm |-> TRUE]}
  \cup {[choice |-> category, continue |-> TRUE, confirm |-> confirm] :
          category \in Range(category_list), confirm \in BOOLEAN}

\* descriptions with and without a merchant left after extraction
SessionTransactions ==
  {Transaction(0, "visa", <<"a">>, 1, "Other", <<>>),
   Transaction(1, "visa", <<"-", "a">>, 1, "Other", <<>>),
   Transaction(1, "visa", <<"B", " ", "-", " ", "c">>, 1, "Other", <<>>)}

\* up to two different transactions
SessionLists ==
  {list \in UNION {[1..n -> SessionTransactions] : n \in 0..2} :
     \A i, j \in 1..Len(list) : i # j => list[i] # list[j]}

\* lines 28-30, and the classifier built from the two config files
SessionInit ==
  /\ config_file = JsonObject(WorkRules)
  /\ private_file \in {Absent, JsonObject(TagOverlay)}
  /\ classifier \in CategoryClassifier(config_file, private_file)
  /\ transactions \in SessionLists
  /\ manual_file = Absent
  /\ manual_transactions = <<>>
  /\ ToolsUnused
  /\ ret = NoCall

SessionNext ==
  \E selected_indices \in Selections(Len(transactions)) :
    \E answers \in [1..Len(selected_indices) ->
                      SessionAnswers(Keys(classifier.categories))] :
      CategorizeInteractively(selected_indices, answers)

SessionSpec == SessionInit /\ [][SessionNext]_vars

(***************************************************************************)
(* BudgetManager.load_budgets.  A dict of amounts is a record, an amount   *)
(* is in cents.                                                            *)
(***************************************************************************)
\* lines 54-62: some monthly, annual or category amount is below zero
HasNegative(manager) ==
  \/ \E c \in DOMAIN manager.monthly_budgets : manager.monthly_budgets[c] < 0
  \/ \E c \in DOMAIN manager.annual_budgets : manager.annual_budgets[c] < 0
  \/ \E c \in DOMAIN manager.category_budgets :
       \E period \in DOMAIN manager.category_budgets[c] :
         manager.category_budgets[c][period] < 0

\* lines 45-67 on the content of the file: the exception that leaves the call
\* and the fields of the manager afterwards.  open raises for a missing file,
\* config.get for a document that is no object; lines 49-51 assign the three
\* dicts before lines 54-62 look at the amounts.
load_budgets(manager, file) ==
  CASE file.kind = "absent" -> [raises |-> "FileNotFoundError", manager |-> manager]
    [] file.kind = "text" -> [raises |-> "ValueError", manager |-> manager]
    [] file.kind \in {"null", "number", "boolean", "string", "array"} ->
         [raises |-> "AttributeError", manager |-> manager]
    [] OTHER ->
         LET config == file.value
             loaded == [monthly_budgets |-> Get(config, "monthly_budgets", <<>>),
                        annual_budgets |-> Get(config, "annual_budgets", <<>>),
                        category_budgets |-> Get(config, "category_budgets", <<>>)]
         IN  [raises |-> IF HasNegative(loaded) THEN "ValueError" ELSE None,
              manager |-> loaded]

\* budget_manager.load_budgets(budget_path), the file holding the given content
LoadBudgets(file) ==
  LET outcome == load_budgets(budget_manager, file)
  IN  /\ budget_manager' = outcome.manager
      /\ ret' = [op |-> "load_budgets", budget_path |-> file,
                 before |-> budget_manager, raised |-> outcome.raises]
      /\ UNCHANGED <<config_file, private_file, classifier, transactions,
                     manual_file, manual_transactions, config_backup_created,
                     backup_files, output_dir, disk>>

\* budget files: none, no JSON, null, and objects with and without amounts
\* below zero
BudgetFiles ==
  {Absent, [kind |-> "text"], [kind |-> "null"],
   JsonObject([monthly_budgets |-> [Food |-> 10000]]),
   JsonObject([annual_budgets |-> [Travel |-> 120000],
               category_budgets |-> [Food |-> [monthly |-> 5000]]]),
   JsonObject([monthly_budgets |-> [Food |-> -500, Travel |-> 0]]),
   JsonObject([monthly_budgets |-> [Food |-> 10000],
               annual_budgets |-> [Travel |-> -1]]),
   JsonObject([category_budgets |-> [Food |-> [monthly |-> 5000, annual |-> -200]]])}
  \cup {JsonObject([monthly_budgets |-> [Food |-> m],
                    annual_budgets |-> [Travel |-> a]]) :
          m \in {-500, 0, 10000}, a \in {-1, 120000}}

\* BudgetManager(None), lines 29-31
BudgetInit ==
  /\ config_file = Absent
  /\ private_file = Absent
  /\ classifier = NoClassifier
  /\ transactions = <<>>
  /\ manual_file = Absent
  /\ manual_transactions = <<>>
  /\ ToolsUnused
  /\ ret = NoCall

BudgetNext == \E file \in BudgetFiles : LoadBudgets(file)

BudgetSpec == BudgetInit /\ [][BudgetNext]_vars

(***************************************************************************)
(* DataManager.backup_data and export_transactions_to_json.  A path is the *)
(* sequence of its components; the disk is the set of directories and      *)
(* files made so far, a file with its content.                             *)
(***************************************************************************)
\* Path.mkdir(parents=True, exist_ok=True): the directory and those above it
mkdir(path) == {[path |-> SubSeq(path, 1, n), kind |-> "dir"] : n \in 1..Len(path)}

\* open(path, 'w') and json.dump: the file at the path holds the content
write(files, path, content) ==
  {f \in files : f.path # path}
    \cup {[path |-> path, kind |-> "file", content |-> content]}

\* lines 83-93: the dict of one transaction
exported(t) ==
  [date |-> isoformat(Datetime(t.date)), account_type |-> t.account_type,
   description |-> t.description, amount |-> t.amount, category |-> t.category,
   subcategory |-> t.subcategory, credit_card |-> t.credit_card,
   tags |-> t.tags, notes |-> t.notes]

\* lines 78-103: the path written and the document written there
export_transactions_to_json(list, filename, now) ==
  LET sorted == SortByDate(list)
  IN  [output_path |-> Append(output_dir, filename),
       content |-> [transactions |-> [i \in 1..Len(sorted) |-> exported(sorted[i])],
                    count |-> Len(sorted),
                    export_date |-> isoformat(Datetime(now))]]

\* lines 164-165: f"backup_{timestamp}.json", the timestamp a text of the clock
backup_name(now) == "backup_" \o now.stamp \o ".json"

\* data_manager.export_transactions_to_json(transactions, filename)
ExportTransactionsToJson(filename, now) ==
  LET out == export_transactions_to_json(transactions, filename, now.day)
  IN  /\ disk' = write(disk, out.output_path, out.content)
      /\ ret' = [op |-> "export_transactions_to_json", filename |-> filename,
                 value |-> out.output_path]
      /\ UNCHANGED <<config_file, private_file, classifier, transactions,
                     manual_file, manual_transactions, config_backup_created,
                     backup_files, budget_manager, output_dir>>

\* data_manager.backup_data(transactions, backup_dir), lines 159-167: the
\* directory is made, the export is given the name of backup_path alone
BackupData(backup_dir, now) ==
  LET dir == IF backup_dir.is_none THEN Append(output_dir, "backups")
             ELSE backup_dir.path
      backup_path == Append(dir, backup_name(now))
      out == export_transactions_to_json(transactions, backup_path[Len(backup_path)],
                                         now.day)
  IN  /\ disk' = write(disk \cup mkdir(dir), out.output_path, out.content)
      /\ ret' = [op |-> "backup_data", backup_dir |-> backup_dir,
                 value |-> out.output_path]
      /\ UNCHANGED <<config_file, private_file, classifier, transactions,
                     manual_file, manual_transactions, config_backup_created,
                     backup_files, budget_manager, output_dir>>

\* the default 'data' and a nested directory
OutputDirs == {<<"data">>, <<"out", "2024">>}

\* backup_dir: None, a directory of its own, a directory below output_dir
BackupDirs ==
  {[is_none |-> TRUE], [is_none |-> FALSE, path |-> <<"bk">>],
   [is_none |-> FALSE, path |-> <<"data", "old">>],
   [is_none |-> FALSE, path |-> <<"data">>]}

\* datetime.now(): the day and the timestamp text of two moments
Clock == {[day |-> 1, stamp |-> "20240101_000000"],
          [day |-> 2, stamp |-> "20240102_000000"]}

DataLists ==
  UNION {[1..n -> {Transaction(d, "visa", <<"a">>, 10, "Other", <<>>) : d \in {0, 1}}] :
           n \in 0..2}

\* DataManager(output_dir), lines 26-27
DataInit ==
  /\ config_file = Absent
  /\ private_file = Absent
  /\ classifier = NoClassifier
  /\ transactions \in DataLists
  /\ manual_file = Absent
  /\ manual_transactions = <<>>
  /\ config_backup_created = FALSE
  /\ backup_files = <<>>
  /\ budget_manager = NoBudgets
  /\ output_dir \in OutputDirs
  /\ disk = mkdir(output_dir)
  /\ ret = NoCall

DataNext ==
  \/ \E now \in Clock : ExportTransactionsToJson("exported_transactions.json", now)
  \/ \E backup_dir \in BackupDirs, now \in Clock : BackupData(backup_dir, now)

DataSpec == DataInit /\ [][DataNext]_vars

(***************************************************************************)
(* Properties of detect_recurring.                                         *)
(***************************************************************************)
\* the positions in the history of the merchant's expenses
ExpensesOf(merchant) ==
  {i \in 1..Len(transactions) :
     transactions[i].amount > 0 /\ MerchantKey(transactions[i]) = merchant}

Merchants == {MerchantKey(transactions[i]) : i \in 1..Len(transactions)}

\* the merchant has exactly n expenses, each of the amount, whose dates in
\* ascending order lie the gap apart
Regular(merchant, n, amount, gap) ==
  LET members == ExpensesOf(merchant)
      first == CHOOSE d \in {transactions[i].date : i \in members} :
                 \A i \in members : d <= transactions[i].date
  IN  /\ Cardinality(members) = n
      /\ \A i \in members : transactions[i].amount = amount
      /\ \A k \in 0..(n - 1) :
           Cardinality({i \in members : transactions[i].date = first + k * gap})
             = IF gap = 0 THEN n ELSE 1

ChargedAmounts == {c[2] : c \in Charges}

PatternsOf(merchant) ==
  {i \in 1..Len(ret.value) : ret.value[i].merchant = merchant}

\* exactly one pattern of the merchant, with that mean amount and mean interval
OnePattern(merchant, amount, gap) ==
  /\ Cardinality(PatternsOf(merchant)) = 1
  /\ \A i \in PatternsOf(merchant) :
       /\ ret.value[i].average_amount.num = amount * ret.value[i].average_amount.den
       /\ ret.value[i].interval_days.num = gap * ret.value[i].interval_days.den

\* C6 as claimed: for every min_occurrences (the tolerance at its default), a
\* merchant with exactly min_occurrences expenses of one amount a constant gap
\* apart yields exactly one pattern, with that amount and that gap.
C6_StabilityAsClaimed ==
  (ret.op = "detect_recurring" /\ ret.amount_tolerance = 10) =>
    \A merchant \in Merchants, amount \in ChargedAmounts, gap \in Days :
      Regular(merchant, ret.min_occurrences, amount, gap)
        => OnePattern(merchant, amount, gap)

\* C6, amended: the same for min_occurrences >= 2 and a constant gap of at least
\* one day, at any tolerance >= 0.
C6_Stability ==
  (ret.op = "detect_recurring" /\ ret.min_occurrences >= 2) =>
    \A merchant \in Merchants, amount \in ChargedAmounts, gap \in Days \ {0} :
      Regular(merchant, ret.min_occurrences, amount, gap)
        => OnePattern(merchant, amount, gap)

\* C6 witness: three expenses of one amount a day apart, min_occurrences 3, one
\* pattern, beside other transactions in the history
C6_Witness ==
  /\ ret.op = "detect_recurring"
  /\ ret.min_occurrences = 3
  /\ \E merchant \in Merchants :
       /\ Regular(merchant, 3, 10, 1)
       /\ OnePattern(merchant, 10, 1)

\* the largest and the smallest amount of the merchant's expenses
Largest(merchant) ==
  CHOOSE x \in {transactions[i].amount : i \in ExpensesOf(merchant)} :
    \A i \in ExpensesOf(merchant) : transactions[i].amount <= x

Smallest(merchant) ==
  CHOOSE x \in {transactions[i].amount : i \in ExpensesOf(merchant)} :
    \A i \in ExpensesOf(merchant) : x <= transactions[i].amount

\* nothing but the amounts stands against a pattern for the merchant
OtherwiseRecurring(merchant) ==
  LET intervals == Intervals(SortByDate(Group(transactions, merchant)))
  IN  /\ Cardinality(ExpensesOf(merchant)) >= ret.min_occurrences
      /\ intervals # <<>>
      /\ Max(intervals) <= 2 * Min(intervals)

\* C7: no pattern is emitted for a merchant whose largest amount over its
\* smallest exceeds 1 + amount_tolerance; a merchant whose ratio is exactly
\* 1 + amount_tolerance is not rejected for its amounts.
C7_VarianceRejection ==
  ret.op = "detect_recurring" =>
    /\ \A i \in 1..Len(ret.value) :
         100 * Largest(ret.value[i].merchant)
           <= (100 + ret.amount_tolerance) * Smallest(ret.value[i].merchant)
    /\ \A merchant \in Merchants :
         (/\ ExpensesOf(merchant) # {}
          /\ 100 * Largest(merchant) = (100 + ret.amount_tolerance) * Smallest(merchant)
          /\ OtherwiseRecurring(merchant))
           => PatternsOf(merchant) # {}

\* C7 witness: amounts 10 and 11 at tolerance 0.1 give a pattern
C7_Witness ==
  /\ ret.op = "detect_recurring"
  /\ ret.amount_tolerance = 10
  /\ \E merchant \in Merchants :
       /\ ExpensesOf(merchant) # {}
       /\ Largest(merchant) = 11
       /\ Smallest(merchant) = 10
       /\ PatternsOf(merchant) # {}

(***************************************************************************)
(* C11: find_missing.                                                      *)
(***************************************************************************)
\* the whole days between the transaction's date and the predicted date
WholeDayDistance(transaction, recurring) ==
  LET expected == predict_next(recurring)
  IN  abs(transaction.date * expected.den - expected.num) \div expected.den

\* an expense of the history matches the pattern's merchant, date and amount
Appeared(recurring) ==
  \E i \in 1..Len(transactions) :
    LET t == transactions[i]
        interval == recurring.interval_days
        average == recurring.average_amount
    IN  /\ t.amount > 0
        /\ OccursIn(recurring.merchant, t.description)
        /\ 2 * interval.den * WholeDayDistance(t, recurring) <= interval.num
        /\ 5 * abs(abs(t.amount) * average.den - average.num) <= average.num

\* C11 as claimed: find_missing returns, in input order, exactly the patterns
\* that are due at current_date and for which no expense of the history has a
\* description containing the merchant, a date within half an interval (in
\* whole days) of the predicted date and an amount within 20% of the average.
C11_FindMissingAsClaimed ==
  ret.op = "find_missing" =>
    LET reported(p) ==
          /\ ret.current_date * predict_next(p).den >= predict_next(p).num
          /\ ~Appeared(p)
    IN  ret.value = SelectSeq(ret.recurring_transactions, reported)

(***************************************************************************)
(* C12: predict_future.                                                    *)
(***************************************************************************)
\* the number of k >= 1 with last_date + k * interval_days <= end
Horizon(p, end) ==
  LET room == (end - p.last_date) * p.interval_days.den
  IN  IF room < p.interval_days.num THEN 0 ELSE room \div p.interval_days.num

\* the prediction is pattern p on the day last_date + k * interval_days
IsPrediction(e, p, k) ==
  /\ e[1] = p
  /\ e[2].num * p.interval_days.den =
       (p.last_date * p.interval_days.den + k * p.interval_days.num) * e[2].den

\* how many entries of the list satisfy the test
HowMany(list, Test(_)) == Cardinality({i \in 1..Len(list) : Test(list[i])})

\* C12: predict_future emits, for each input pattern, exactly the dates
\* last_date + k * interval_days (k = 1, 2, ...) that do not exceed
\* now + months_ahead * 30 days, none when predict_next is already beyond it,
\* and the merged list is in ascending order of predicted date.
C12_PredictFuture ==
  ret.op = "predict_future" =>
    LET ps == ret.recurring_transactions
        end == ret.now + ret.months_ahead * 30
        given(p) == HowMany(ps, LAMBDA q : q = p)
    IN  /\ \A p \in Range(ps) :
             /\ \A k \in 1..Horizon(p, end) :
                  HowMany(ret.value, LAMBDA e : IsPrediction(e, p, k)) = given(p)
             /\ HowMany(ret.value, LAMBDA e : e[1] = p) = given(p) * Horizon(p, end)
        /\ \A i \in 1..Len(ret.value) : ret.value[i][1] \in Range(ps)
        /\ \A i, j \in 1..Len(ret.value) :
             i < j => ~Earlier(ret.value[j], ret.value[i])

\* C12 witness: the predictions of two patterns interleave and one of them
\* falls on the horizon itself
C12_Witness ==
  /\ ret.op = "predict_future"
  /\ \E i, j, k \in 1..Len(ret.value) :
       /\ i < j /\ j < k
       /\ ret.value[i][1] = ret.value[k][1]
       /\ ret.value[i][1] # ret.value[j][1]
  /\ \E i \in 1..Len(ret.value) :
       ret.value[i][2].num = (ret.now + ret.months_ahead * 30) * ret.value[i][2].den

(***************************************************************************)
(* C13: the fallback rule.                                                 *)
(***************************************************************************)
\* C13 as claimed: a constructed classifier has exactly one rule named
\* "Other", and that rule is the last of the sorted rules.
C13_OneFallbackLastAsClaimed ==
  classifier.status = "ok" =>
    LET rules == classifier.categories
    IN  /\ Cardinality({i \in 1..Len(rules) : rules[i].name = "Other"}) = 1
        /\ rules[Len(rules)].name = "Other"

(***************************************************************************)
(* C14: the order of the rules.                                            *)
(***************************************************************************)
\* the names of the rules after loading and merging, before the sort: those of
\* the base file as declared, then those only the overlay has; the defaults
\* when there is no base file (the overlay is then not read)
LoadedNames ==
  IF Exists(config_file)
  THEN LET base == Keys(config_file.value.categories)
           isNew(n) == n \notin Range(base)
       IN  IF Exists(private_file)
           THEN base \o SelectSeq(Keys(private_file.value.categories), isNew)
           ELSE base
  ELSE Keys(_get_default_categories)

PositionIn(names, n) == CHOOSE i \in 1..Len(names) : names[i] = n

\* C14: after construction the rules are in ascending order of priority, a
\* rule without priority counting as 999, and rules of equal priority are in
\* the order they had after loading and merging.
C14_SortedStable ==
  classifier.status = "ok" =>
    LET rules == classifier.categories
        prio(i) == IF "priority" \in DOMAIN rules[i].config
                   THEN rules[i].config.priority ELSE 999
    IN  /\ Range(Keys(rules)) = Range(LoadedNames)
        /\ Len(rules) = Len(LoadedNames)
        /\ \A i, j \in 1..Len(rules) :
             i < j =>
               /\ prio(i) <= prio(j)
               /\ prio(i) = prio(j) =>
                    PositionIn(LoadedNames, rules[i].name)
                      < PositionIn(LoadedNames, rules[j].name)

\* C14 witness: built from a base file and an overlay; the sort moved a rule, a
\* rule without priority ties with another one, and one rule is the overlay's
C14_Witness ==
  /\ classifier.status = "ok" /\ Exists(config_file) /\ Exists(private_file)
  /\ Keys(classifier.categories) # LoadedNames
  /\ \E i, j \in 1..Len(classifier.categories) :
       /\ i < j
       /\ "priority" \notin DOMAIN classifier.categories[j].config
       /\ classifier.categories[i].config.priority = 999
  /\ \E i \in 1..Len(classifier.categories) :
       ~HasKey(config_file.value.categories, classifier.categories[i].name)

(***************************************************************************)
(* C15: what the overlay merge does to priority and the other fields.      *)
(***************************************************************************)
BaseConfig(n) == Item(config_file.value.categories, n)

OverlayConfig(n) == Item(private_file.value.categories, n)

MergedConfig(n) == Item(classifier.categories, n)

\* C15: for a category of both files the merged priority is the overlay's when
\* it gives one and the base's otherwise, every other overlay field replaces or
\* adds to the base's fields and the remaining base fields stay; a category of
\* the overlay alone is inserted as given; a category of the base alone is
\* unchanged.
C15_MergeFields ==
  Merged =>
    /\ \A n \in SharedCategories :
         LET b == BaseConfig(n)
             o == OverlayConfig(n)
             m == MergedConfig(n)
         IN  /\ DOMAIN m = DOMAIN b \cup DOMAIN o \cup {"keywords"}
             /\ \A k \in DOMAIN m \ {"keywords"} :
                  m[k] = IF k \in DOMAIN o THEN o[k] ELSE b[k]
    /\ \A n \in Range(Keys(private_file.value.categories)) \ SharedCategories :
         MergedConfig(n) = OverlayConfig(n)
    /\ \A n \in Range(Keys(config_file.value.categories)) \ SharedCategories :
         MergedConfig(n) = BaseConfig(n)

\* C15 witness: in one merge the overlay replaces a priority and adds a field
\* to one category, replaces a field of another without naming a priority,
\* brings a category of its own and leaves a base category alone
C15_Witness ==
  /\ Merged
  /\ \E n \in SharedCategories :
       /\ "priority" \in DOMAIN OverlayConfig(n)
       /\ "priority" \in DOMAIN BaseConfig(n)
       /\ OverlayConfig(n).priority # BaseConfig(n).priority
       /\ "require_negative" \in DOMAIN OverlayConfig(n) \ DOMAIN BaseConfig(n)
  /\ \E n \in SharedCategories :
       /\ "priority" \notin DOMAIN OverlayConfig(n)
       /\ "priority" \in DOMAIN BaseConfig(n)
       /\ "require_negative" \in DOMAIN OverlayConfig(n) \cap DOMAIN BaseConfig(n)
       /\ OverlayConfig(n).require_negative # BaseConfig(n).require_negative
  /\ Range(Keys(private_file.value.categories)) \ SharedCategories # {}
  /\ Range(Keys(config_file.value.categories)) \ SharedCategories # {}

(***************************************************************************)
(* C16: the interval rule of detect_recurring.                             *)
(***************************************************************************)
\* the days on which the merchant was charged
ChargeDays(merchant) == {transactions[i].date : i \in ExpensesOf(merchant)}

\* the gap samples: pairs of charge days with no charge day in between
GapSamples(merchant) ==
  {pair \in ChargeDays(merchant) \X ChargeDays(merchant) :
     /\ pair[1] < pair[2]
     /\ ~\E d \in ChargeDays(merchant) : pair[1] < d /\ d < pair[2]}

\* there is a sample and the largest is at most twice the smallest
GapsRegular(merchant) ==
  /\ GapSamples(merchant) # {}
  /\ \A x, y \in GapSamples(merchant) : x[2] - x[1] <= 2 * (y[2] - y[1])

\* count and amounts do not stand against a pattern for the merchant
OtherwiseAccepted(merchant) ==
  /\ Cardinality(ExpensesOf(merchant)) >= ret.min_occurrences
  /\ 100 * Largest(merchant) <= (100 + ret.amount_tolerance) * Smallest(merchant)

\* the sum of the gap samples
RECURSIVE TotalGap(_)
TotalGap(samples) ==
  IF samples = {} THEN 0
  ELSE LET x == CHOOSE y \in samples : TRUE
       IN  (x[2] - x[1]) + TotalGap(samples \ {x})

\* C16: the gap samples of a group are the positive whole-day differences of
\* date-consecutive transactions; a group without a sample, or whose largest
\* sample is more than twice its smallest, gives no pattern, a group that is
\* otherwise accepted and has regular samples gives one, and interval_days is
\* the mean of the samples alone.
C16_IntervalRule ==
  ret.op = "detect_recurring" =>
    /\ \A i \in 1..Len(ret.value) :
         LET merchant == ret.value[i].merchant
         IN  /\ GapsRegular(merchant)
             /\ ret.value[i].interval_days.num * Cardinality(GapSamples(merchant))
                  = TotalGap(GapSamples(merchant)) * ret.value[i].interval_days.den
    /\ \A merchant \in Merchants :
         (ExpensesOf(merchant) # {} /\ OtherwiseAccepted(merchant)
            /\ GapsRegular(merchant))
           => PatternsOf(merchant) # {}

\* C16 witness: a pattern for a merchant charged twice on one day and once two
\* days later; its interval is 2 days, not the 1 day a counted zero gap gives
C16_Witness ==
  /\ ret.op = "detect_recurring"
  /\ \E i \in 1..Len(ret.value) :
       LET members == ExpensesOf(ret.value[i].merchant)
       IN  /\ Cardinality(members) = 3
           /\ Cardinality(ChargeDays(ret.value[i].merchant)) = 2
           /\ ret.value[i].interval_days.num = 2 * ret.value[i].interval_days.den

(***************************************************************************)
(* C17: one pattern for each merchant key.                                 *)
(***************************************************************************)
\* the sum of the amounts of the transactions at the given positions
RECURSIVE TotalAmount(_)
TotalAmount(members) ==
  IF members = {} THEN 0
  ELSE LET i == CHOOSE k \in members : TRUE
       IN  transactions[i].amount + TotalAmount(members \ {i})

\* C17: no two emitted patterns have the same merchant key; the count of a
\* pattern is the number of expenses (amount > 0) with its key, same-day
\* duplicates included, and is at least min_occurrences; last_date is the
\* latest date among them; transactions with amount <= 0 contribute neither to
\* the count nor to the average.
C17_PatternPerKey ==
  ret.op = "detect_recurring" =>
    \A i \in 1..Len(ret.value) :
      LET p == ret.value[i]
          members == ExpensesOf(p.merchant)
      IN  /\ \A j \in 1..Len(ret.value) : j # i => ret.value[j].merchant # p.merchant
          /\ p.count = Cardinality(members)
          /\ p.count >= ret.min_occurrences
          /\ \A k \in members : transactions[k].date <= p.last_date
          /\ \E k \in members : transactions[k].date = p.last_date
          /\ p.average_amount.num * p.count = TotalAmount(members) * p.average_amount.den

\* C17 witness: a pattern of count 2 whose two expenses are spelled
\* differently, in a history that also holds a refund or zero amount under the
\* same key
C17_Witness ==
  /\ ret.op = "detect_recurring"
  /\ \E i \in 1..Len(ret.value) :
       /\ ret.value[i].count = 2
       /\ \E j, k \in ExpensesOf(ret.value[i].merchant) :
            transactions[j].description # transactions[k].description
       /\ \E j \in 1..Len(transactions) :
            /\ transactions[j].amount <= 0
            /\ MerchantKey(transactions[j]) = ret.value[i].merchant

(***************************************************************************)
(* C18: empty and short inputs.                                            *)
(***************************************************************************)
\* C18: detect_recurring raises nothing, whatever min_occurrences is; it
\* returns the empty list for an empty history, for a single transaction and
\* when every merchant has fewer expenses than min_occurrences; categorize_all
\* of the empty list is the empty list.
C18_DegenerateInputs ==
  /\ ret.op = "detect_recurring" =>
       /\ ret.raised = None
       /\ Len(transactions) <= 1 => ret.value = <<>>
       /\ (\A merchant \in Merchants :
             Cardinality(ExpensesOf(merchant)) < ret.min_occurrences)
            => ret.value = <<>>
  /\ (ret.op = "categorize_all" /\ ret.before = <<>>) => ret.value = <<>>

\* C18 witness: a single expense and min_occurrences of 1 or less: the group is
\* long enough, and the result is empty all the same
C18_Witness ==
  /\ ret.op = "detect_recurring"
  /\ ret.min_occurrences <= 1
  /\ Len(transactions) = 1
  /\ transactions[1].amount > 0
  /\ ret.value = <<>>

(***************************************************************************)
(* C19: get_manual_transactions.                                           *)
(***************************************************************************)
\* the Transaction is the one of the stored record
SameRecord(t, data) ==
  /\ data.date.kind = "iso" /\ t.date = data.date.day
  /\ t.account_type = data.account_type
  /\ t.description = data.description
  /\ t.amount = data.amount

ValidRecord(data) ==
  /\ data.date.kind = "iso"
  /\ data.account_type \in {"chequing", "visa"}
  /\ \E i \in 1..Len(data.description) : data.description[i] \notin Whitespace

NotesParts(t1, t2) ==
  SelectSeq(<<t1.notes, t2.notes>>, LAMBDA n : n # None /\ n # "")

\* tags and notes of the merged transaction are those of the two combined
Combined(merged, t1, t2) ==
  /\ Range(merged.tags) = Range(t1.tags) \cup Range(t2.tags)
  /\ Len(merged.tags) = Cardinality(Range(merged.tags))
  /\ merged.notes =
       IF NotesParts(t1, t2) = <<>> THEN None
       ELSE IF Len(NotesParts(t1, t2)) = 1 THEN NotesParts(t1, t2)[1]
       ELSE NotesParts(t1, t2)[1] \o " | " \o NotesParts(t1, t2)[2]

\* C20 as claimed: the merged transaction equals transaction1 in every field
\* other than tags and notes, account_id included; its tags are the union of
\* both tag lists without duplicates and its notes the non-empty notes of
\* both joined by " | "; neither argument is modified.
C20_MergeAsClaimed ==
  ret.op = "merge_transactions" =>
    /\ \A field \in {"date", "account_type", "description", "amount", "category",
                      "subcategory", "credit_card", "account_id"} :
         ret.value[field] = ret.transaction1[field]
    /\ Combined(ret.value, ret.transaction1, ret.transaction2)
    /\ \E i, j \in 1..Len(transactions) :
         transactions[i] = ret.transaction1 /\ transactions[j] = ret.transaction2

(***************************************************************************)
(* C23, C24: the veto of Travel's keyword CASH INTEREST.                   *)
(***************************************************************************)
\* the keywords of the i-th rule of the classifier
KeywordsOf(i) == Get(classifier.categories[i].config, "keywords", <<>>)

\* the k-th keyword of the i-th rule is Travel's CASH INTEREST, in any case
IsCashInterest(i, k) ==
  /\ classifier.categories[i].name = "Travel"
  /\ Len(KeywordsOf(i)[k]) = Len(CASH_INTEREST)
  /\ \A c \in 1..Len(CASH_INTEREST) : UpperChar(KeywordsOf(i)[k][c]) = CASH_INTEREST[c]

\* the loops look at the k-th keyword of the i-th rule and find it in the
\* description of transaction t
Looked(i, k, t) ==
  /\ classifier.categories[i].name # "Other"
  /\ ~(Get(classifier.categories[i].config, "require_negative", FALSE) /\ t.amount >= 0)
  /\ OccursIn(KeywordsOf(i)[k], t.description)

\* categorize returns at the k-th keyword of the i-th rule if it gets there
Returns(i, k, t) == Looked(i, k, t) /\ ~(IsCashInterest(i, k) /\ t.amount < 0)

\* position (i, k) comes before position (j, l)
Before(i, k, j, l) == i < j \/ (i = j /\ k < l)

\* the positions of all keywords of all rules
Positions ==
  UNION {{<<i, k>> : k \in 1..Len(KeywordsOf(i))} :
           i \in 1..Len(classifier.categories)}

\* categorize gets to Travel's CASH INTEREST at position pos and finds it
AtCashInterest(pos, t) ==
  /\ IsCashInterest(pos[1], pos[2])
  /\ Looked(pos[1], pos[2], t)
  /\ \A q \in Positions :
       Before(q[1], q[2], pos[1], pos[2]) => ~Returns(q[1], q[2], t)

C24_NeverTravelAsClaimed ==
  (/\ ret.op = "categorize" /\ classifier.status = "ok"
   /\ \E pos \in Positions : IsCashInterest(pos[1], pos[2])
   /\ ret.transaction.amount < 0
   /\ OccursIn(CASH_INTEREST, ret.transaction.description))
    => ret.value # "Travel"

(***************************************************************************)
(* C25: what _apply_auto_tags adds.                                        *)
(***************************************************************************)
\* C25: _apply_auto_tags adds a tag exactly when the tag is not among the
\* transaction's tags and its rule holds: a keyword occurs in the description
\* or the current category is one of the rule's.  The tags the transaction had
\* stay where they were, the new ones follow in rule order, and nothing else
\* of the transaction changes.
C25_AutoTagsAdded ==
  ret.op = "_apply_auto_tags" =>
    LET before == ret.before
        after == transactions[ret.index]
        rules == classifier.auto_tagging_rules
        holds(name) == RuleHolds(Item(rules, name), before.description, before.category)
        new(name) == name \notin Range(before.tags) /\ holds(name)
    IN  /\ \A name \in Range(Keys(rules)) :
             (name \in Range(after.tags) /\ name \notin Range(before.tags)) <=> new(name)
        /\ Len(after.tags) >= Len(before.tags)
        /\ SubSeq(after.tags, 1, Len(before.tags)) = before.tags
        /\ SubSeq(after.tags, Len(before.tags) + 1, Len(after.tags))
             = SelectSeq(Keys(rules), new)
        /\ after = [before EXCEPT !.tags = after.tags]

\* C25 witness: a transaction that carries a tag whose rule holds and a
\* repeated tag of its own is given two more tags, one for a keyword and one
\* for its category
C25_Witness ==
  /\ ret.op = "_apply_auto_tags"
  /\ ret.before.tags = <<"x", "home", "x">>
  /\ HasKey(classifier.auto_tagging_rules, "home")
  /\ RuleHolds(Item(classifier.auto_tagging_rules, "home"),
               ret.before.description, ret.before.category)
  /\ Len(transactions[ret.index].tags) = 5
  /\ \E name \in Range(Keys(classifier.auto_tagging_rules)) :
       /\ name \notin Range(ret.before.tags)
       /\ ~RuleHolds(Item(classifier.auto_tagging_rules, name),
                     ret.before.description, ret.before.category)

EditOrDelete == ret'.op \in {"edit_transaction", "delete_transaction"}

\* the record at 0-based position i moves to 0-based position j
Moves(i, j) == manual_transactions'[j + 1] = manual_transactions[i + 1]

\* C27: edit_transaction and delete_transaction with index < 0 or index >= the
\* number of records raise IndexError and change neither the list nor the file;
\* delete_transaction with a valid index removes the record at that index, the
\* records before it stay and the records after it move up by one.
C27_IndexChecked ==
  [][EditOrDelete =>
       LET n == Len(manual_transactions)
           index == ret'.index
       IN  IF index < 0 \/ index >= n
           THEN /\ ret'.raised = "IndexError"
                /\ manual_transactions' = manual_transactions
                /\ manual_file' = manual_file
           ELSE /\ ret'.raised = None
                /\ ret'.op = "delete_transaction" =>
                     /\ Len(manual_transactions') = n - 1
                     /\ \A i \in 0..(index - 1) : Moves(i, i)
                     /\ \A i \in (index + 1)..(n - 1) : Moves(i, i - 1)
                     /\ manual_file' = JsonObject(manual_transactions')]_vars

\* C27 witness: delete_transaction(-1) has raised IndexError on a list of two
\* different records, which the file still holds
C27_Witness ==
  /\ ret.op = "delete_transaction"
  /\ ret.index = -1
  /\ ret.raised = "IndexError"
  /\ Len(manual_transactions) >= 2
  /\ manual_transactions[1] # manual_transactions[Len(manual_transactions)]
  /\ manual_file = JsonObject(manual_transactions)

(***************************************************************************)
(* C30: find_missing on the detector's own patterns.                       *)
(***************************************************************************)
\* the patterns were detected in the transactions the detector holds
OwnPatterns ==
  \E m \in OwnMinimums :
    ret.recurring_transactions = detect_recurring(transactions, m, 10, 80)

\* the transaction lies at least interval_days before predict_next and its
\* date_diff exceeds half of interval_days
TooEarly(recurring, transaction) ==
  LET next_date == predict_next(recurring)
      interval == recurring.interval_days
  IN  /\ transaction.date * next_date.den + interval.num <= next_date.num
      /\ 2 * interval.den * date_diff(transaction, next_date) > interval.num

\* an expense of another merchant group counts as the expected occurrence
FoundElsewhere(recurring) ==
  \E i \in 1..Len(transactions) :
    /\ MerchantKey(transactions[i]) # recurring.merchant
    /\ Found(recurring, transactions[i])

\* C30: when find_missing is given the patterns detect_recurring finds in the
\* same transactions, no expense of a pattern's own merchant group counts as
\* the expected occurrence, each being too early; the pattern is reported
\* exactly when it is due and no expense of another group matches it.
C30_OwnGroupNeverCounts ==
  (ret.op = "find_missing" /\ OwnPatterns) =>
    \A k \in 1..Len(ret.recurring_transactions) :
      LET recurring == ret.recurring_transactions[k]
      IN  /\ \A i \in ExpensesOf(recurring.merchant) :
               /\ TooEarly(recurring, transactions[i])
               /\ ~Found(recurring, transactions[i])
          /\ recurring \in Range(ret.value)
               <=> (is_due(recurring, ret.current_date) /\ ~FoundElsewhere(recurring))

\* C30 witness: a due pattern with expenses of its own is not reported, because
\* an expense of another group matches it
C30_Witness ==
  /\ ret.op = "find_missing"
  /\ OwnPatterns
  /\ \E k \in 1..Len(ret.recurring_transactions) :
       LET recurring == ret.recurring_transactions[k]
       IN  /\ is_due(recurring, ret.current_date)
           /\ ExpensesOf(recurring.merchant) # {}
           /\ FoundElsewhere(recurring)
           /\ recurring \notin Range(ret.value)

(***************************************************************************)
(* C21: the backup of the config file.                                     *)
(***************************************************************************)
\* C21: over the save_keyword_to_config calls of one InteractiveCategorizer at
\* most one backup file is made, and its content is what the config file held
\* before this instance wrote to it: one of the files the instance found.
C21_BackupOfOriginalAsClaimed ==
  /\ Len(backup_files) <= 1
  /\ \A i \in 1..Len(backup_files) : backup_files[i] \in KeywordFiles

(***************************************************************************)
(* C22: budget amounts.                                                    *)
(***************************************************************************)
\* C22: after any sequence of load_budgets calls, those that raise ValueError
\* for an amount below zero included, the manager holds no monthly, annual or
\* category amount below zero.
C22_NoNegativeAmountAsClaimed == ~HasNegative(budget_manager)

(***************************************************************************)
(* C28: where backup_data writes.                                          *)
(***************************************************************************)
\* the directory backup_data was asked to use
AskedDir ==
  IF ret.backup_dir.is_none THEN Append(output_dir, "backups")
  ELSE ret.backup_dir.path

\* C28: backup_data writes the backup file into backup_dir, by default
\* <output_dir>/backups, and returns the path of that file inside backup_dir.
C28_WrittenIntoBackupDirAsClaimed ==
  ret.op = "backup_data" =>
    /\ SubSeq(ret.value, 1, Len(ret.value) - 1) = AskedDir
    /\ \E f \in disk : f.kind = "file" /\ f.path = ret.value

(***************************************************************************)
(* C29: the statistics of a session.                                       *)
(***************************************************************************)
\* C29: when categorize_interactively returns after a selection was made,
\* reviewed + skipped = selected, accepted + re_categorized = reviewed and
\* keywords_added <= re_categorized; when no selection is made every counter
\* except total is 0.
C29_SessionStatistics ==
  (ret.op = "categorize_interactively" /\ ret.raised = None) =>
    LET stats == ret.value
    IN  IF ret.selected_indices # <<>> /\ transactions # <<>>
        THEN /\ stats.selected = Len(ret.selected_indices)
             /\ stats.reviewed + stats.skipped = stats.selected
             /\ stats.accepted + stats.re_categorized = stats.reviewed
             /\ stats.keywords_added <= stats.re_categorized
        ELSE stats = NewStats(stats.total)

\* C29 witness: of two selected transactions one was given a new category and
\* its keyword saved, the other skipped
C29_Witness ==
  /\ ret.op = "categorize_interactively"
  /\ ret.raised = None
  /\ ret.value.selected = 2
  /\ ret.value.re_categorized = 1
  /\ ret.value.keywords_added = 1
  /\ ret.value.skipped = 1

====
